---- MODULE Spec2Model ----
(***************************************************************************)
(* The Elasticsearch bulk processor of the visibility indexer              *)
(* (esProcessorImpl): Add, the after-commit callback bulkAfterAction,      *)
(* ackKafkaMsg, and the request parser getESRequest, together with the     *)
(* olivere/elastic bulk processor that stages and commits the requests and *)
(* an Elasticsearch index that applies versioned writes; and the standby   *)
(* transfer queue processor (transferQueueStandbyProcessorImpl.process and *)
(* its per-type handlers) with the visibility glue of                      *)
(* transferQueueProcessorBase (recordWorkflowStarted / recordWorkflowClosed,*)
(* pushActivity / pushDecision), and the poll-dispatch-ack loop that reads  *)
(* transfer tasks, hands them to workers and advances the ack level.       *)
(* Add and ackKafkaMsg are also modelled statement by statement, with one  *)
(* caller of Add and with several concurrent ones.                         *)
(***************************************************************************)
EXTENDS Integers, Sequences, FiniteSets, TLC

\* ------------------------------------------------------------------ bounds
\* kafka messages that are ever handed to Add
NumHandles == 2
\* run ids (Elasticsearch document ids)
NumDocs == 2
\* config.ESProcessorNumOfWorkers(): flushers of the bulk processor
NumWorkers == 2
\* config.ESProcessorBulkActions(): most requests in one commit
BulkActions == 2
\* config.IndexerConcurrency(): the modulus of the in-flight table's hash
IndexerConcurrency == 2
\* transfer tasks in the queue of the shard, with task ids 1..NumTasks
NumTasks == 3
\* goroutines of the indexer that call Add at the same time
NumAdders == 2

\* --------------------------------------------------------------- constants
\* the version-per-message-type mapping (strictly increasing)
versionForOpen == 10
versionForClose == 20
versionForDelete == 30

esRequestTypeIndex == "index"
esRequestTypeUpdate == "update"
esRequestTypeDelete == "delete"

versionTypeExternal == "external"
indexName == "cadence-visibility"
esDocType == "_doc"

Handles == 1..NumHandles
DocIDs == 1..NumDocs
Workers == 1..NumWorkers

\* a nil elastic.BulkableRequest
NilRequest == [op |-> "nil"]
\* no key recorded for a handle (it was never passed to Add)
NoKey == <<>>
\* an idle flusher
NoBatch == [idle |-> TRUE]
\* an optional field of a VisibilityMsg: absent (a nil pointer) or a value
Null == <<>>

Some(v) == <<v>>

\* ------------------------------------------------------- message-type tags
\* convertESVersionToVisibilityMsgType: the tag of a header's version
convertESVersionToVisibilityMsgType(version) ==
    CASE version = versionForOpen -> "Open"
      [] version = versionForClose -> "Closed"
      [] version = versionForDelete -> "Delete"
      [] OTHER -> ""

\* key := res.Id + head  (esDocID+visType): the pair stands for the
\* concatenation of a run id and a tag
DocKey(id, head) == <<id, head>>

\* ------------------------------------------------------------- documents
\* indexer.VisibilityMsg: every field is optional (a nil pointer is Null)
VisibilityMsgFields == {"msgType", "runID", "closeTime"}

ZeroVisibilityMsg == [f \in VisibilityMsgFields |-> Null]

OpenDoc(id) == [msgType |-> Some("Open"), runID |-> Some(id), closeTime |-> Null]

ClosedDoc(id) ==
    [msgType |-> Some("Closed"), runID |-> Some(id), closeTime |-> Some(1)]

\* json.Marshal of a document: nil fields are omitted
MarshalDoc(doc) ==
    LET present == {f \in DOMAIN doc : doc[f] # Null}
    IN  [f \in present |-> doc[f]]

\* json.Unmarshal([]byte(input[1]), &doc): fields missing in the JSON stay nil,
\* fields the struct does not have are ignored
UnmarshalDoc(json) ==
    [f \in VisibilityMsgFields |-> IF f \in DOMAIN json THEN json[f] ELSE Null]

\* ---------------------------------------------------------------- requests
\* elastic.NewBulkIndexRequest().Index().Type().Id().VersionType().Version().Doc()
BulkIndexRequest(index, typ, id, versionType, version, doc) ==
    [op |-> esRequestTypeIndex, index |-> index, typ |-> typ, id |-> id,
     versionType |-> versionType, version |-> version, doc |-> doc]

\* elastic.NewBulkDeleteRequest().Index().Type().Id().VersionType().Version()
BulkDeleteRequest(index, typ, id, versionType, version) ==
    [op |-> esRequestTypeDelete, index |-> index, typ |-> typ, id |-> id,
     versionType |-> versionType, version |-> version, doc |-> ZeroVisibilityMsg]

\* the requests the indexer hands to Add: Open and Closed are index requests,
\* Delete is a delete request, all externally versioned
OpenRequest(id) ==
    BulkIndexRequest(indexName, esDocType, id, versionTypeExternal, versionForOpen, OpenDoc(id))

ClosedRequest(id) ==
    BulkIndexRequest(indexName, esDocType, id, versionTypeExternal, versionForClose, ClosedDoc(id))

DeleteRequest(id) ==
    BulkDeleteRequest(indexName, esDocType, id, versionTypeExternal, versionForDelete)

InputRequests ==
    {OpenRequest(id) : id \in DocIDs} \cup {ClosedRequest(id) : id \in DocIDs}
        \cup {DeleteRequest(id) : id \in DocIDs}

\* the in-flight key the indexer passes with a request: esDocID+visType
RequestKey(request) ==
    DocKey(request.id, convertESVersionToVisibilityMsgType(request.version))

\* a JSON value as encoding/json reads it into interface{}: a string, or a
\* number (float64)
JSONString(s) == [type |-> "string", value |-> s]

JSONNumber(n) == [type |-> "float64", value |-> n]

\* the header line of the bulk framing: {"<op>": {"_index":..,"_id":..,...}}
RequestHeader(request) ==
    request.op :> (("_index" :> JSONString(request.index))
                   @@ ("_id" :> JSONString(request.id))
                   @@ ("_type" :> JSONString(request.typ))
                   @@ ("version" :> JSONNumber(request.version))
                   @@ ("version_type" :> JSONString(request.versionType)))

\* a line that is not JSON: a text no object is read from
NotJSON == "not json" :> <<>>

\* json.Unmarshal([]byte(line), &reqHead)
UnmarshalHeader(line) ==
    IF line = NotJSON THEN [err |-> TRUE]
    ELSE [err |-> FALSE, reqHead |-> line]

\* m[field].(string) and m[field].(float64): the assertion holds when the
\* field is there with a value of that type, and panics otherwise
IsString(m, field) == field \in DOMAIN m /\ m[field].type = "string"

IsFloat64(m, field) == field \in DOMAIN m /\ m[field].type = "float64"

\* request.Source(): two lines for an index request, one for a delete; a
\* BulkableRequest of another make returns the lines it holds
Source(request) ==
    IF "source" \in DOMAIN request THEN request.source.lines
    ELSE IF request.op = esRequestTypeIndex
    THEN <<RequestHeader(request), MarshalDoc(request.doc)>>
    ELSE <<RequestHeader(request)>>

\* the error request.Source() returns with its lines
SourceErr(request) ==
    IF "source" \in DOMAIN request THEN request.source.err ELSE FALSE

\* what getESRequest leaves besides a request: nil after counting the source
\* as corrupted data, and the panic of a failed type assertion
CorruptedDataNil == [op |-> "nil", corrupted |-> TRUE]

PanicInGetESRequest == [op |-> "panic"]

\* getReqType: the single key of the header
getReqType(input) ==
    IF DOMAIN input = {} THEN "" ELSE CHOOSE k \in DOMAIN input : TRUE

\* getESRequest with the version type of the rebuilt request not taken from the
\* header
getESRequest_ForcedVersionType(input) ==
    LET reqHead == input[1]
        m == reqHead[getReqType(reqHead)]
        doc == IF Len(input) = 2 THEN UnmarshalDoc(input[2]) ELSE ZeroVisibilityMsg
    IN  IF getReqType(reqHead) = esRequestTypeIndex
        THEN BulkIndexRequest(m["_index"].value, m["_type"].value, m["_id"].value,
                              "force", m["version"].value, doc)
        ELSE NilRequest

\* getESRequest that does not read the document line of the source
getESRequest_DocumentNotRead(input) ==
    LET reqHead == input[1]
        m == reqHead[getReqType(reqHead)]
        doc == ZeroVisibilityMsg
    IN  IF getReqType(reqHead) = esRequestTypeIndex
        THEN BulkIndexRequest(m["_index"].value, m["_type"].value, m["_id"].value,
                              m["version_type"].value, m["version"].value, doc)
        ELSE NilRequest

\* getESRequest from elastic.BulkableRequest.Source(): the request rebuilt from
\* its source lines, NilRequest when nothing is rebuilt.  A header that is not
\* JSON is counted as corrupted data; the five header values are read by type
\* assertions without the ok result, which panic on a missing or ill-typed one
getESRequest(input) ==
    LET unmarshalled == UnmarshalHeader(input[1])
        reqHead == unmarshalled.reqHead
        m == reqHead[getReqType(reqHead)]
        asserted ==
            /\ IsString(m, "_index") /\ IsString(m, "_id") /\ IsString(m, "_type")
            /\ IsFloat64(m, "version") /\ IsString(m, "version_type")
        index == m["_index"].value
        id == m["_id"].value
        typ == m["_type"].value
        version == m["version"].value
        versionType == m["version_type"].value
        doc == IF Len(input) = 2 THEN UnmarshalDoc(input[2]) ELSE ZeroVisibilityMsg
    IN  IF unmarshalled.err THEN CorruptedDataNil
        ELSE IF ~asserted THEN PanicInGetESRequest
        ELSE CASE getReqType(reqHead) = esRequestTypeIndex ->
                     BulkIndexRequest(index, typ, id, versionType, version, doc)
               [] getReqType(reqHead) = esRequestTypeDelete -> NilRequest
               [] OTHER -> NilRequest

\* ------------------------------------------------- the sharded concurrent map
\* collection.ConcurrentTxMap: the table is a function from its keys to handles
Contains(table, key) == key \in DOMAIN table

Get(table, key) == table[key]

Put(table, key, value) ==
    [k \in DOMAIN table \cup {key} |-> IF k = key THEN value ELSE table[k]]

Remove(table, key) == [k \in DOMAIN table \ {key} |-> table[k]]

\* the in-flight keys: the strings esDocID+visType
KeyStrings == {DocKey(id, head) : id \in DocIDs, head \in {"Open", "Closed", "Delete"}}

\* farm.Fingerprint32 as common.WorkflowIDToHistoryShard uses it: some function
\* from the strings it is given to 32-bit values, here to a few values that
\* cover every residue of the modulus
FingerprintValues == 0..IndexerConcurrency

Fingerprints(strings) == [strings -> FingerprintValues]

\* common.WorkflowIDToHistoryShard(workflowID, numberOfShards)
WorkflowIDToHistoryShard(fingerprint, workflowID, numberOfShards) ==
    fingerprint[workflowID] % numberOfShards

\* hashFn: the shard hash collection.NewShardedConcurrentTxMap is built with
hashFn(fingerprint, key) ==
    LET id == key
        ok == key \in KeyStrings
        numOfShards == IndexerConcurrency
    IN  IF ~ok THEN 0
        ELSE WorkflowIDToHistoryShard(fingerprint, id, numOfShards)

\* ------------------------------------------------------------ Elasticsearch
\* One write against a document whose stored version is `stored` (0: no
\* document).  External versioning accepts a write only if its version is
\* greater than the stored one and answers 409 otherwise; internal versioning
\* accepts it only if its version is the stored one, and counts on; "force"
\* writes whatever the stored version; any other version type is a bad request.
ESWrite(request, stored) ==
    CASE request.versionType = "external" ->
            IF request.version > stored
            THEN [status |-> IF stored = 0 /\ request.op = esRequestTypeIndex
                             THEN 201 ELSE 200,
                  version |-> request.version]
            ELSE [status |-> 409, version |-> stored]
      [] request.versionType = "internal" ->
            IF request.version = stored
            THEN [status |-> 200, version |-> stored + 1]
            ELSE [status |-> 409, version |-> stored]
      [] request.versionType = "force" ->
            [status |-> 200, version |-> request.version]
      [] OTHER -> [status |-> 400, version |-> stored]

\* One bulk call: the requests are applied in order; those in `failing` are
\* answered 500 (a transient per-item failure) and leave the index alone.
\* Yields the response items and the index after the call.
RECURSIVE ESBulk(_, _, _, _, _)
ESBulk(requests, failing, i, items, store) ==
    IF i > Len(requests)
    THEN [items |-> items, store |-> store]
    ELSE LET r == requests[i]
             w == ESWrite(r, store[r.id])
         IN  IF i \in failing
             THEN ESBulk(requests, failing, i + 1,
                         Append(items, [Id |-> r.id, Status |-> 500]), store)
             ELSE ESBulk(requests, failing, i + 1,
                         Append(items, [Id |-> r.id, Status |-> w.status]),
                         [store EXCEPT ![r.id] = w.version])

\* ------------------------------------------------------------------- state
VARIABLES
    mapToKafkaMsg,  \* p.mapToKafkaMsg: in-flight key -> kafka message handle
    staged,         \* requests handed to p.processor.Add, not yet committed
    batches,        \* per flusher: the committed batch whose After is due
    esVersion,      \* per document id: the version Elasticsearch stores
    added,          \* per handle: the key it was passed to Add with
    acked,          \* per handle: how many times Ack() was called on it
    ackedOn,        \* per handle: what it was last acked on: "duplicate" (by
                    \* Add), "success" or "conflict" (the status class of the
                    \* response item that acked it), "none" before
    addCall,        \* the consumer goroutine's call of Add, statement by
                    \* statement: its position and arguments, NoCall outside
    ackCall,        \* a flusher goroutine's call of ackKafkaMsg, statement by
                    \* statement: its position, key and local msg, NoCall outside
    addCalls,       \* per goroutine of the indexer that calls Add concurrently
                    \* with the others: its call of Add, statement by statement
    queueTask,      \* standby processor: the transfer task a worker holds
    mutableState,   \* the mutable state the workflow cache loads for its run
    shardTime,      \* t.shard.GetCurrentTime(t.clusterName)
    visibilityProducer, \* t.visibilityProducer: "nil" or the kafka producer
    taskPhase,      \* "idle": no task held; "ready": the task waits for its
                    \* (next) attempt; "done": process has returned
    attempt,        \* the last call of process: the error it returned and the
                    \* calls it made on its collaborators, in order
    queueAckMgr     \* the poll-dispatch-ack loop of the standby processor:
                    \* read level, ack level, the shard's cluster ack level
                    \* and the tasks read so far

\* no call in progress
NoCall == [pc |-> "none"]

\* the goroutines that call Add concurrently
Adders == 1..NumAdders

esVars == <<mapToKafkaMsg, staged, batches, esVersion, added, acked, ackedOn>>

\* the positions inside Add and ackKafkaMsg
callVars == <<addCall, ackCall, addCalls>>

\* the standby transfer queue processor
standbyVars ==
    <<queueTask, mutableState, shardTime, visibilityProducer, taskPhase, attempt,
      queueAckMgr>>

vars == <<esVars, callVars, standbyVars>>

\* what the specifications with atomic Add / After steps leave alone
stepVars == <<callVars, standbyVars>>

\* the queue ack manager as newQueueAckMgr makes it: read level and ack level
\* at the shard's cluster ack level, no task read
TaskIDs == 1..NumTasks

NoTasksRead ==
    [readLevel |-> 0, ackLevel |-> 0, clusterAckLevel |-> 0,
     outstandingTasks |-> [id \in TaskIDs |->
                             [state |-> "unread", retryCount |-> 0, err |-> "none"]]]

\* no transfer task, no mutable state, no call of process
NoTask == [TaskType |-> "none"]

NoMutableState == [loaded |-> FALSE]

NoAttempt == [err |-> "none", log |-> <<>>]

\* the standby processor holds no task
StandbyIdle ==
    /\ queueAckMgr = NoTasksRead
    /\ queueTask = NoTask
    /\ mutableState = NoMutableState
    /\ shardTime = 0
    /\ taskPhase = "idle"
    /\ attempt = NoAttempt

\* no goroutine is inside Add or ackKafkaMsg
NoCalls ==
    /\ addCall = NoCall /\ ackCall = NoCall
    /\ addCalls = [g \in Adders |-> NoCall]

Init ==
    /\ NoCalls
    /\ StandbyIdle /\ visibilityProducer = "kafka"
    /\ mapToKafkaMsg = <<>>
    /\ staged = <<>>
    /\ batches = [w \in Workers |-> NoBatch]
    /\ esVersion = [d \in DocIDs |-> 0]
    /\ added = [h \in Handles |-> NoKey]
    /\ acked = [h \in Handles |-> 0]
    /\ ackedOn = [h \in Handles |-> "none"]

\* the part of the state the processor's own code writes
ProcState ==
    [table |-> mapToKafkaMsg, acked |-> acked, submitted |-> <<>>,
     corruptedData |-> 0, panicked |-> FALSE]

\* IncCounter(ESProcessorScope, ESProcessorCorruptedData)
CorruptedData(st) == [st EXCEPT !.corruptedData = @ + 1]

\* a panic in the callback: nothing of it runs any more
Panic(st) == [st EXCEPT !.panicked = TRUE]

\* if r := p.getESRequest(req); r != nil { p.processor.Add(r) }: nothing is
\* added for nil
Resubmit(st, r) ==
    CASE r = NilRequest -> st
      [] r = CorruptedDataNil -> CorruptedData(st)
      [] r = PanicInGetESRequest -> Panic(st)
      [] OTHER -> [st EXCEPT !.submitted = Append(@, r)]

\* ackKafkaMsg without the Remove
ackKafkaMsg_NoRemove(st, key) ==
    IF ~Contains(st.table, key) THEN st
    ELSE [st EXCEPT !.acked[Get(st.table, key)] = @ + 1]

\* ackKafkaMsg that removes the key without acking its handle
ackKafkaMsg_NoAck(st, key) ==
    IF ~Contains(st.table, key) THEN st
    ELSE [st EXCEPT !.table = Remove(@, key)]

\* ackKafkaMsg: ack the handle under key and remove the key; a missing key
\* is a duplicate kafka message
ackKafkaMsg(st, key) ==
    IF ~Contains(st.table, key) THEN st
    ELSE LET kafkaMsg == Get(st.table, key)
         IN  [st EXCEPT !.acked[kafkaMsg] = @ + 1,
                        !.table = Remove(@, key)]

\* reconcileItem with the success range starting above 200
reconcileItem_Above200(st, req, res) ==
    LET unmarshalled == UnmarshalHeader(req[1])
        reqHead == unmarshalled.reqHead
        header == reqHead[getReqType(reqHead)]
        head == convertESVersionToVisibilityMsgType(header["version"].value)
        key == DocKey(res.Id, head)
    IN  IF unmarshalled.err THEN CorruptedData(st)
        ELSE IF ~IsFloat64(header, "version") THEN Panic(st)
        ELSE IF res.Status > 200 /\ res.Status < 300
        THEN ackKafkaMsg(st, key)
        ELSE IF res.Status = 409
        THEN ackKafkaMsg(st, key)
        ELSE Resubmit(st, getESRequest(req))

\* reconcileItem with a version conflict retried like any other failure
reconcileItem_ConflictRetried(st, req, res) ==
    LET unmarshalled == UnmarshalHeader(req[1])
        reqHead == unmarshalled.reqHead
        header == reqHead[getReqType(reqHead)]
        head == convertESVersionToVisibilityMsgType(header["version"].value)
        key == DocKey(res.Id, head)
    IN  IF unmarshalled.err THEN CorruptedData(st)
        ELSE IF ~IsFloat64(header, "version") THEN Panic(st)
        ELSE IF res.Status >= 200 /\ res.Status < 300
        THEN ackKafkaMsg(st, key)
        ELSE Resubmit(st, getESRequest(req))

\* the body of bulkAfterAction's loop for one request of a committed batch:
\* its source `req` and its response item `res`.  A header that is not JSON is
\* counted as corrupted data and skipped; header["version"].(float64) panics
\* on a missing or ill-typed version
reconcileItem(st, req, res) ==
    LET unmarshalled == UnmarshalHeader(req[1])
        reqHead == unmarshalled.reqHead
        header == reqHead[getReqType(reqHead)]
        head == convertESVersionToVisibilityMsgType(header["version"].value)
        key == DocKey(res.Id, head)
    IN  IF unmarshalled.err THEN CorruptedData(st)
        ELSE IF ~IsFloat64(header, "version") THEN Panic(st)
        ELSE IF res.Status >= 200 /\ res.Status < 300
        THEN ackKafkaMsg(st, key)
        ELSE IF res.Status = 409
        THEN ackKafkaMsg(st, key)
        ELSE Resubmit(st, getESRequest(req))

RECURSIVE reconcileItems(_, _, _, _)
reconcileItems(st, requests, items, i) ==
    IF i > Len(requests) \/ st.panicked THEN st
    ELSE reconcileItems(IF SourceErr(requests[i]) THEN CorruptedData(st)
                        ELSE reconcileItem(st, Source(requests[i]), items[i]),
                        requests, items, i + 1)

\* bulkAfterAction's flush-error branch: every request is rebuilt from its
\* source and handed to the bulk processor again
RECURSIVE resubmitAll(_, _, _)
resubmitAll(st, requests, i) ==
    IF i > Len(requests) \/ st.panicked THEN st
    ELSE resubmitAll(IF SourceErr(requests[i]) THEN CorruptedData(st)
                     ELSE Resubmit(st, getESRequest(Source(requests[i]))),
                     requests, i + 1)

\* bulkAfterAction(id, requests, response, err)
bulkAfterAction(st, batch) ==
    IF batch.err
    THEN resubmitAll(st, batch.requests, 1)
    ELSE reconcileItems(st, batch.requests, batch.items, 1)

\* ----------------------------------------------------------------- actions
\* the batch of a flusher whose After callback panicked
Crashed(batch) ==
    [requests |-> batch.requests, items |-> batch.items, err |-> batch.err,
     panicked |-> TRUE]

IsCrashed(batch) == "panicked" \in DOMAIN batch

\* no goroutine of the process has panicked (a panic in the After callback is
\* not recovered and ends the process)
Running == \A w \in Workers : ~IsCrashed(batches[w])

\* the consumer delivers the messages of its partition in offset order, each
\* handle once: the handles not yet passed to Add, and the next of them
Undelivered == {h \in Handles : added[h] = NoKey}

NextMessage ==
    IF Undelivered = {} THEN 0
    ELSE CHOOSE h \in Undelivered : \A h2 \in Undelivered : h <= h2

\* run ids are numbered in the order they first arrive: the number seen so far
SeenDocs == Cardinality({added[h][1] : h \in Handles \ Undelivered})

\* Add without the Contains check: the new handle replaces the one in the table
Add_NoContainsCheck(request, key, kafkaMsg) ==
    /\ added' = [added EXCEPT ![kafkaMsg] = key]
    /\ mapToKafkaMsg' = Put(mapToKafkaMsg, key, kafkaMsg)
    /\ staged' = Append(staged, request)
    /\ UNCHANGED <<acked, ackedOn, batches, esVersion>>

\* Add(request, key, kafkaMsg)
Add(request, key, kafkaMsg) ==
    /\ added' = [added EXCEPT ![kafkaMsg] = key]
    /\ IF Contains(mapToKafkaMsg, key)
       THEN /\ acked' = [acked EXCEPT ![kafkaMsg] = @ + 1]
            /\ ackedOn' = [ackedOn EXCEPT ![kafkaMsg] = "duplicate"]
            /\ UNCHANGED <<mapToKafkaMsg, staged>>
       ELSE /\ mapToKafkaMsg' = Put(mapToKafkaMsg, key, kafkaMsg)
            /\ staged' = Append(staged, request)
            /\ UNCHANGED <<acked, ackedOn>>
    /\ UNCHANGED <<batches, esVersion>>

\* the indexer's consumer hands the next message of the partition to Add, with
\* the request made from it and the request's key
Consume(request, kafkaMsg) ==
    /\ Running
    /\ kafkaMsg = NextMessage
    /\ request.id <= SeenDocs + 1
    /\ Add(request, RequestKey(request), kafkaMsg)
    /\ UNCHANGED stepVars

\* the idle flusher that comes first commits the first n staged requests: either the whole flush fails
\* (err) or Elasticsearch answers every item
Commit(w, n, err, failing) ==
    /\ Running
    /\ batches[w] = NoBatch
    /\ \A w2 \in Workers : w2 < w => batches[w2] # NoBatch
    /\ n \in 1..Len(staged)
    /\ n <= BulkActions
    /\ failing \subseteq 1..n
    /\ err => failing = {}
    /\ LET requests == SubSeq(staged, 1, n)
           out == ESBulk(requests, failing, 1, <<>>, esVersion)
       IN  /\ batches' = [batches EXCEPT ![w] =
                            [requests |-> requests,
                             items |-> IF err THEN <<>> ELSE out.items,
                             err |-> err]]
           /\ esVersion' = IF err THEN esVersion ELSE out.store
    /\ staged' = SubSeq(staged, n + 1, Len(staged))
    /\ UNCHANGED stepVars
    /\ UNCHANGED <<mapToKafkaMsg, added, acked, ackedOn>>

\* the key of the i-th response item of a batch: the item's id and the tag of
\* the version in the request's header
ItemKey(batch, i) ==
    DocKey(batch.items[i].Id,
           convertESVersionToVisibilityMsgType(batch.requests[i].version))

\* the status class of the response a batch carries for a key
AnswerClass(batch, key) ==
    IF batch.err THEN "none"
    ELSE IF \E i \in 1..Len(batch.items) :
                ItemKey(batch, i) = key /\ batch.items[i].Status = 409
    THEN "conflict"
    ELSE IF \E i \in 1..Len(batch.items) :
                /\ ItemKey(batch, i) = key
                /\ batch.items[i].Status >= 200 /\ batch.items[i].Status < 300
    THEN "success"
    ELSE "none"

\* the After callback of flusher w runs bulkAfterAction on its batch
After(w) ==
    /\ Running
    /\ batches[w] # NoBatch
    /\ LET st == bulkAfterAction(ProcState, batches[w])
       IN  /\ mapToKafkaMsg' = st.table
           /\ acked' = st.acked
           /\ ackedOn' = [h \in Handles |->
                            IF st.acked[h] > acked[h]
                            THEN AnswerClass(batches[w], added[h])
                            ELSE ackedOn[h]]
           /\ staged' = staged \o st.submitted
           /\ batches' = [batches EXCEPT ![w] =
                            IF st.panicked THEN Crashed(@) ELSE NoBatch]
    /\ UNCHANGED <<esVersion, added>>
    /\ UNCHANGED stepVars

Next ==
    \/ \E kafkaMsg \in Handles, request \in InputRequests :
          Consume(request, kafkaMsg)
    \/ \E w \in Workers, n \in 1..BulkActions, err \in BOOLEAN,
          failing \in SUBSET (1..BulkActions) : Commit(w, n, err, failing)
    \/ \E w \in Workers : After(w)

Spec == Init /\ [][Next]_vars

\* The scheduling the bulk processor gives: a due After callback runs, and
\* Elasticsearch does not fail for ever: while requests keep being staged, a
\* commit that answers every item with its proper status happens again.
FairSpec ==
    /\ Spec
    /\ \A w \in Workers : WF_vars(After(w))
    /\ SF_vars(\E w \in Workers, n \in 1..BulkActions : Commit(w, n, FALSE, {}))

\* ------------------------------------- Add and ackKafkaMsg, statement by statement
\* The consumer goroutine calls Add for one message after the other; a flusher
\* goroutine runs ackKafkaMsg for a request Elasticsearch answered with 2xx.
\* Each call of the concurrent map and each Ack() is one step, so the two
\* goroutines interleave between any two statements.

\* the consumer enters Add(request, key, kafkaMsg)
AddEnter(request, kafkaMsg) ==
    /\ addCall = NoCall
    /\ kafkaMsg = NextMessage
    /\ request.id <= SeenDocs + 1
    /\ addCall' = [pc |-> "Contains", request |-> request,
                   key |-> RequestKey(request), kafkaMsg |-> kafkaMsg]
    /\ added' = [added EXCEPT ![kafkaMsg] = RequestKey(request)]
    /\ UNCHANGED <<mapToKafkaMsg, staged, batches, esVersion, acked, ackedOn, ackCall, addCalls, standbyVars>>

\* the test of Add answered "absent" whatever the table holds
AddContains_AlwaysAbsent ==
    /\ addCall.pc = "Contains"
    /\ addCall' = [addCall EXCEPT !.pc = "Put"]
    /\ UNCHANGED <<esVars, ackCall, addCalls, standbyVars>>

\* if p.mapToKafkaMsg.Contains(key)
AddContains ==
    /\ addCall.pc = "Contains"
    /\ addCall' = [addCall EXCEPT !.pc =
                      IF Contains(mapToKafkaMsg, addCall.key) THEN "Ack" ELSE "Put"]
    /\ UNCHANGED <<esVars, ackCall, addCalls, standbyVars>>

\* kafkaMsg.Ack() // duplicate message; return
AddAck ==
    /\ addCall.pc = "Ack"
    /\ acked' = [acked EXCEPT ![addCall.kafkaMsg] = @ + 1]
    /\ ackedOn' = [ackedOn EXCEPT ![addCall.kafkaMsg] = "duplicate"]
    /\ addCall' = NoCall
    /\ UNCHANGED <<mapToKafkaMsg, staged, batches, esVersion, added, ackCall, addCalls, standbyVars>>

\* p.mapToKafkaMsg.Put(key, kafkaMsg)
AddPut ==
    /\ addCall.pc = "Put"
    /\ mapToKafkaMsg' = Put(mapToKafkaMsg, addCall.key, addCall.kafkaMsg)
    /\ addCall' = [addCall EXCEPT !.pc = "processorAdd"]
    /\ UNCHANGED <<staged, batches, esVersion, added, acked, ackedOn, ackCall, addCalls, standbyVars>>

\* p.processor.Add(request)
AddSubmit ==
    /\ addCall.pc = "processorAdd"
    /\ staged' = Append(staged, addCall.request)
    /\ addCall' = NoCall
    /\ UNCHANGED <<mapToKafkaMsg, batches, esVersion, added, acked, ackedOn, ackCall, addCalls, standbyVars>>

\* the oldest staged request was committed and answered with 2xx: the After
\* callback enters ackKafkaMsg with the key of the response item
AckEnter ==
    /\ ackCall = NoCall
    /\ staged # <<>>
    /\ ackCall' = [pc |-> "Get", key |-> RequestKey(Head(staged)), msg |-> 0]
    /\ staged' = Tail(staged)
    /\ UNCHANGED <<mapToKafkaMsg, batches, esVersion, added, acked, ackedOn, addCall, addCalls, standbyVars>>

\* msg, ok := p.mapToKafkaMsg.Get(key); if !ok { return }
AckGet ==
    /\ ackCall.pc = "Get"
    /\ ackCall' = IF Contains(mapToKafkaMsg, ackCall.key)
                  THEN [ackCall EXCEPT !.pc = "Ack",
                                       !.msg = Get(mapToKafkaMsg, ackCall.key)]
                  ELSE NoCall
    /\ UNCHANGED <<esVars, addCall, addCalls, standbyVars>>

\* kafkaMsg.Ack()
AckAck ==
    /\ ackCall.pc = "Ack"
    /\ acked' = [acked EXCEPT ![ackCall.msg] = @ + 1]
    /\ ackedOn' = [ackedOn EXCEPT ![ackCall.msg] = "success"]
    /\ ackCall' = [ackCall EXCEPT !.pc = "Remove"]
    /\ UNCHANGED <<mapToKafkaMsg, staged, batches, esVersion, added, addCall, addCalls, standbyVars>>

\* p.mapToKafkaMsg.Remove(key)
AckRemove ==
    /\ ackCall.pc = "Remove"
    /\ mapToKafkaMsg' = Remove(mapToKafkaMsg, ackCall.key)
    /\ ackCall' = NoCall
    /\ UNCHANGED <<staged, batches, esVersion, added, acked, ackedOn, addCall, addCalls, standbyVars>>

StepNext ==
    \/ \E kafkaMsg \in Handles, request \in InputRequests : AddEnter(request, kafkaMsg)
    \/ AddContains
    \/ AddAck
    \/ AddPut
    \/ AddSubmit
    \/ AckEnter
    \/ AckGet
    \/ AckAck
    \/ AckRemove

StepSpec == Init /\ [][StepNext]_vars

\* both goroutines keep running, and Elasticsearch answers what is staged
StepFairSpec == StepSpec /\ WF_vars(StepNext)

\* ------------------------------------------------ Add called by several goroutines
\* The goroutines of the indexer hand their messages to Add at the same time;
\* each runs Add statement by statement, and a flusher goroutine runs
\* ackKafkaMsg as above.

\* goroutine g enters Add(request, key, kafkaMsg) with the next message
ConcurrentAddEnter(g, request, kafkaMsg) ==
    /\ addCalls[g] = NoCall
    /\ kafkaMsg = NextMessage
    /\ request.id <= SeenDocs + 1
    /\ addCalls' = [addCalls EXCEPT ![g] =
                      [pc |-> "Contains", request |-> request,
                       key |-> RequestKey(request), kafkaMsg |-> kafkaMsg]]
    /\ added' = [added EXCEPT ![kafkaMsg] = RequestKey(request)]
    /\ UNCHANGED <<mapToKafkaMsg, staged, batches, esVersion, acked, ackedOn,
                   addCall, ackCall, standbyVars>>

\* if p.mapToKafkaMsg.Contains(key)
ConcurrentAddContains(g) ==
    /\ addCalls[g].pc = "Contains"
    /\ addCalls' = [addCalls EXCEPT ![g].pc =
                      IF Contains(mapToKafkaMsg, addCalls[g].key)
                      THEN "Ack" ELSE "Put"]
    /\ UNCHANGED <<esVars, addCall, ackCall, standbyVars>>

\* kafkaMsg.Ack() // duplicate message; return
ConcurrentAddAck(g) ==
    /\ addCalls[g].pc = "Ack"
    /\ acked' = [acked EXCEPT ![addCalls[g].kafkaMsg] = @ + 1]
    /\ ackedOn' = [ackedOn EXCEPT ![addCalls[g].kafkaMsg] = "duplicate"]
    /\ addCalls' = [addCalls EXCEPT ![g] = NoCall]
    /\ UNCHANGED <<mapToKafkaMsg, staged, batches, esVersion, added,
                   addCall, ackCall, standbyVars>>

\* p.mapToKafkaMsg.Put(key, kafkaMsg)
ConcurrentAddPut(g) ==
    /\ addCalls[g].pc = "Put"
    /\ mapToKafkaMsg' = Put(mapToKafkaMsg, addCalls[g].key, addCalls[g].kafkaMsg)
    /\ addCalls' = [addCalls EXCEPT ![g].pc = "processorAdd"]
    /\ UNCHANGED <<staged, batches, esVersion, added, acked, ackedOn,
                   addCall, ackCall, standbyVars>>

\* p.processor.Add(request)
ConcurrentAddSubmit(g) ==
    /\ addCalls[g].pc = "processorAdd"
    /\ staged' = Append(staged, addCalls[g].request)
    /\ addCalls' = [addCalls EXCEPT ![g] = NoCall]
    /\ UNCHANGED <<mapToKafkaMsg, batches, esVersion, added, acked, ackedOn,
                   addCall, ackCall, standbyVars>>

ConcurrentNext ==
    \/ \E g \in Adders, kafkaMsg \in Handles, request \in InputRequests :
          ConcurrentAddEnter(g, request, kafkaMsg)
    \/ \E g \in Adders : ConcurrentAddContains(g)
    \/ \E g \in Adders : ConcurrentAddAck(g)
    \/ \E g \in Adders : ConcurrentAddPut(g)
    \/ \E g \in Adders : ConcurrentAddSubmit(g)
    \/ AckEnter
    \/ AckGet
    \/ AckAck
    \/ AckRemove

ConcurrentSpec == Init /\ [][ConcurrentNext]_vars

\* every goroutine keeps running, and Elasticsearch answers what is staged
ConcurrentFairSpec == ConcurrentSpec /\ WF_vars(ConcurrentNext)

\* ------------------------------------------- standby transfer queue processor
\* t.shard.GetConfig().StandbyClusterDelay(), in ticks of the shard clock
StandbyClusterDelay == 1
\* the shard clock runs up to here: one tick past twice the delay
MaxShardTime == 2 * StandbyClusterDelay + 1

\* common.MaxTaskTimeout (seconds), common.EmptyEventID, common.FirstEventID
MaxTaskTimeout == 31622400
EmptyEventID == -23
FirstEventID == 1
secondsInDay == 86400
defaultDomainName == "defaultDomainName"

\* the errors process can return
NoError == "nil"
ErrTaskRetry == "ErrTaskRetry"
ErrTaskDiscarded == "ErrTaskDiscarded"
errUnknownTransferTask == "errUnknownTransferTask"

\* persistence.TransferTaskType*
TransferTaskTypeActivityTask == "ActivityTask"
TransferTaskTypeDecisionTask == "DecisionTask"
TransferTaskTypeCloseExecution == "CloseExecution"
TransferTaskTypeCancelExecution == "CancelExecution"
TransferTaskTypeSignalExecution == "SignalExecution"
TransferTaskTypeStartChildExecution == "StartChildExecution"

TransferTaskTypes ==
    {TransferTaskTypeActivityTask, TransferTaskTypeDecisionTask,
     TransferTaskTypeCloseExecution, TransferTaskTypeCancelExecution,
     TransferTaskTypeSignalExecution, TransferTaskTypeStartChildExecution,
     "RecordWorkflowStarted"}

\* the persistence.TransferTaskInfo records a worker is handed: version 5,
\* visibility timestamp T0 = 0, schedule id 7 or (within FirstEventID+2) 2
TransferTasks ==
    [TaskType : TransferTaskTypes, ScheduleID : {2, 7}, Version : {5},
     VisibilityTimestamp : {0}, DomainID : {"domain-id"},
     TargetDomainID : {"target-domain-id"}, WorkflowID : {"wid"}, RunID : {1},
     TaskList : {"tl"}]

\* the info of the one scheduled event the mutable state holds: its version
\* and the two timeouts are chosen so that no two fields a handler may read
\* carry the same value
PendingInfos ==
    [Version : {5, 6}, StartedID : {EmptyEventID, 9}, ScheduleToStartTimeout : {30}]
        \cup [Version : {5, 6}, StartedID : {EmptyEventID, 9},
              ScheduleToStartTimeout : {MaxTaskTimeout + 1}]

ExecutionInfoOf(info) ==
    [WorkflowTypeName |-> "wf-type",
     WorkflowTimeout |-> IF info.ScheduleToStartTimeout = 30
                         THEN MaxTaskTimeout + 2 ELSE 60,
     StartTimestamp |-> 3, NextEventID |-> 12]

\* the mutable states the cache may load for the run of a task: its pending
\* event is the task's or there is none (pendingID 0)
MutableStatesFor(task) ==
    {[loaded |-> TRUE, running |-> r, pendingID |-> p, info |-> info,
      executionInfo |-> ExecutionInfoOf(info), closeStatus |-> cs,
      lastUpdatedTimestamp |-> 4,
      lastWriteVersion |-> IF info.Version = 5 THEN 6 ELSE 5] :
        r \in BOOLEAN, p \in {0, task.ScheduleID}, info \in PendingInfos,
        cs \in {1, 2}}

\* msBuilder.IsWorkflowExecutionRunning(), GetExecutionInfo(), GetNextEventID(),
\* GetLastUpdatedTimestamp(), GetLastWriteVersion()
IsWorkflowExecutionRunning(msBuilder) == msBuilder.running

GetExecutionInfo(msBuilder) ==
    [f \in DOMAIN msBuilder.executionInfo \cup {"CloseStatus"} |->
        IF f = "CloseStatus" THEN msBuilder.closeStatus
        ELSE msBuilder.executionInfo[f]]

GetNextEventID(msBuilder) == msBuilder.executionInfo.NextEventID

GetLastUpdatedTimestamp(msBuilder) == msBuilder.lastUpdatedTimestamp

GetLastWriteVersion(msBuilder) == msBuilder.lastWriteVersion

\* msBuilder.GetActivityInfo / GetPendingDecision / GetRequestCancelInfo /
\* GetSignalInfo / GetChildExecutionInfo (scheduleID): the info and whether
\* it is pending
GetPendingInfo(msBuilder, scheduleID) ==
    [info |-> msBuilder.info, isPending |-> msBuilder.pendingID = scheduleID]

\* getWorkflowExecutionCloseStatus: persistence close status -> workflow enum
getWorkflowExecutionCloseStatus(closeStatus) ==
    CASE closeStatus = 1 -> "COMPLETED"
      [] closeStatus = 2 -> "FAILED"
      [] OTHER -> "unknown"

\* verifyTaskVersion: the task is valid for processing iff the versions agree
verifyTaskVersion(version, taskVersion) ==
    [ok |-> version = taskVersion, err |-> NoError]

\* common.MinInt32
MinInt32(a, b) == IF a < b THEN a ELSE b

\* one call on a collaborator, as the log of an attempt records it
Call(name, arg, result) == [call |-> name, arg |-> arg, result |-> result]

\* an outcome of an operation: the error it returns and the calls it made
Outcome(err, log) == [err |-> err, log |-> log]

\* the calls of one name in a log (their positions)
CallsOf(log, name) == {i \in 1..Len(log) : log[i].call = name}

\* ------------------------------------------------ collaborators' answers
\* t.shard.GetDomainCache().GetDomainByID(domainID): an entry, an
\* EntityNotExistsError, or another error
DomainEntries ==
    [Name : {"domain-name"}, RetentionDays : {3},
     SampledEnabled : BOOLEAN, Sampled : BOOLEAN]

DomainLookups ==
    {[err |-> NoError, entry |-> e] : e \in DomainEntries}
        \cup {[err |-> "EntityNotExistsError"], [err |-> "errDomainCache"]}

\* what the matching client, the kafka producer and the visibility store
\* return: nil or their error
MatchingResults == {NoError, "errMatching"}
PublishResults == {NoError, "errPublish"}
VisibilityStoreResults == {NoError, "errVisibilityStore"}

\* ------------------------------------------- transferQueueProcessorBase
\* pushActivity: one matchingClient.AddActivityTask, its error returned
pushActivity(task, activityScheduleToStartTimeout) ==
    LET request ==
            [DomainUUID |-> task.TargetDomainID,
             SourceDomainUUID |-> task.DomainID,
             Execution |-> [WorkflowId |-> task.WorkflowID, RunId |-> task.RunID],
             TaskList |-> task.TaskList,
             ScheduleId |-> task.ScheduleID,
             ScheduleToStartTimeoutSeconds |-> activityScheduleToStartTimeout]
    IN  IF task.TaskType # TransferTaskTypeActivityTask
        THEN {Outcome("fatal", <<>>)}
        ELSE {Outcome(err, <<Call("AddActivityTask", request, err)>>) :
                 err \in MatchingResults}

\* pushDecision: one matchingClient.AddDecisionTask, its error returned
pushDecision(task, tasklist, decisionScheduleToStartTimeout) ==
    LET request ==
            [DomainUUID |-> task.DomainID,
             Execution |-> [WorkflowId |-> task.WorkflowID, RunId |-> task.RunID],
             TaskList |-> tasklist,
             ScheduleId |-> task.ScheduleID,
             ScheduleToStartTimeoutSeconds |-> decisionScheduleToStartTimeout]
    IN  IF task.TaskType # TransferTaskTypeDecisionTask
        THEN {Outcome("fatal", <<>>)}
        ELSE {Outcome(err, <<Call("AddDecisionTask", request, err)>>) :
                 err \in MatchingResults}

\* recordWorkflowStarted going on with the default domain on any error of the
\* domain cache
recordWorkflowStarted_AnyDomainErrorIgnored(domainID, execution, workflowTypeName, startTimeUnixNano, workflowTimeout) ==
    UNION {
        LET log == <<Call("GetDomainByID", domainID, lookup)>>
            found == lookup.err = NoError
            domain == IF found THEN lookup.entry.Name ELSE defaultDomainName
            isSampledEnabled == IF found THEN lookup.entry.SampledEnabled ELSE FALSE
            wid == execution.WorkflowId
            msg == [MsgType |-> Some("Open"), DomainID |-> Some(domainID),
                    WorkflowID |-> Some(wid), RunID |-> Some(execution.RunId),
                    WorkflowType |-> Some(workflowTypeName),
                    StartTime |-> Some(startTimeUnixNano),
                    CloseTime |-> Null, CloseStatus |-> Null,
                    HistoryLength |-> Null]
            request == [DomainUUID |-> domainID, Domain |-> domain,
                        Execution |-> execution,
                        WorkflowTypeName |-> workflowTypeName,
                        StartTimestamp |-> startTimeUnixNano,
                        WorkflowTimeout |-> workflowTimeout]
        IN  IF isSampledEnabled /\ ~lookup.entry.Sampled
            THEN {Outcome(NoError, log)}
            ELSE LET published ==
                         IF visibilityProducer # "nil"
                         THEN {Outcome(err, Append(log, Call("Publish", msg, err))) :
                                  err \in PublishResults}
                         ELSE {Outcome(NoError, log)}
                 IN  UNION {IF p.err # NoError THEN {p}
                            ELSE {Outcome(err, Append(p.log,
                                            Call("RecordWorkflowExecutionStarted", request, err))) :
                                     err \in VisibilityStoreResults} :
                            p \in published}
        : lookup \in DomainLookups}

\* recordWorkflowStarted writing to the store whatever the publish returned
recordWorkflowStarted_PublishErrorIgnored(domainID, execution, workflowTypeName, startTimeUnixNano, workflowTimeout) ==
    UNION {
        LET log == <<Call("GetDomainByID", domainID, lookup)>>
            found == lookup.err = NoError
            domain == IF found THEN lookup.entry.Name ELSE defaultDomainName
            isSampledEnabled == IF found THEN lookup.entry.SampledEnabled ELSE FALSE
            wid == execution.WorkflowId
            msg == [MsgType |-> Some("Open"), DomainID |-> Some(domainID),
                    WorkflowID |-> Some(wid), RunID |-> Some(execution.RunId),
                    WorkflowType |-> Some(workflowTypeName),
                    StartTime |-> Some(startTimeUnixNano),
                    CloseTime |-> Null, CloseStatus |-> Null,
                    HistoryLength |-> Null]
            request == [DomainUUID |-> domainID, Domain |-> domain,
                        Execution |-> execution,
                        WorkflowTypeName |-> workflowTypeName,
                        StartTimestamp |-> startTimeUnixNano,
                        WorkflowTimeout |-> workflowTimeout]
        IN  IF ~found /\ lookup.err # "EntityNotExistsError"
            THEN {Outcome(lookup.err, log)}
            ELSE IF isSampledEnabled /\ ~lookup.entry.Sampled
            THEN {Outcome(NoError, log)}
            ELSE LET published ==
                         IF visibilityProducer # "nil"
                         THEN {Outcome(err, Append(log, Call("Publish", msg, err))) :
                                  err \in PublishResults}
                         ELSE {Outcome(NoError, log)}
                 IN  UNION {IF FALSE THEN {p}
                            ELSE {Outcome(err, Append(p.log,
                                            Call("RecordWorkflowExecutionStarted", request, err))) :
                                     err \in VisibilityStoreResults} :
                            p \in published}
        : lookup \in DomainLookups}

\* recordWorkflowStarted filling the close time of the Open message
recordWorkflowStarted_WithCloseTime(domainID, execution, workflowTypeName, startTimeUnixNano, workflowTimeout) ==
    UNION {
        LET log == <<Call("GetDomainByID", domainID, lookup)>>
            found == lookup.err = NoError
            domain == IF found THEN lookup.entry.Name ELSE defaultDomainName
            isSampledEnabled == IF found THEN lookup.entry.SampledEnabled ELSE FALSE
            wid == execution.WorkflowId
            msg == [MsgType |-> Some("Open"), DomainID |-> Some(domainID),
                    WorkflowID |-> Some(wid), RunID |-> Some(execution.RunId),
                    WorkflowType |-> Some(workflowTypeName),
                    StartTime |-> Some(startTimeUnixNano),
                    CloseTime |-> Some(startTimeUnixNano), CloseStatus |-> Null,
                    HistoryLength |-> Null]
            request == [DomainUUID |-> domainID, Domain |-> domain,
                        Execution |-> execution,
                        WorkflowTypeName |-> workflowTypeName,
                        StartTimestamp |-> startTimeUnixNano,
                        WorkflowTimeout |-> workflowTimeout]
        IN  IF ~found /\ lookup.err # "EntityNotExistsError"
            THEN {Outcome(lookup.err, log)}
            ELSE IF isSampledEnabled /\ ~lookup.entry.Sampled
            THEN {Outcome(NoError, log)}
            ELSE LET published ==
                         IF visibilityProducer # "nil"
                         THEN {Outcome(err, Append(log, Call("Publish", msg, err))) :
                                  err \in PublishResults}
                         ELSE {Outcome(NoError, log)}
                 IN  UNION {IF p.err # NoError THEN {p}
                            ELSE {Outcome(err, Append(p.log,
                                            Call("RecordWorkflowExecutionStarted", request, err))) :
                                     err \in VisibilityStoreResults} :
                            p \in published}
        : lookup \in DomainLookups}

\* recordWorkflowStarted
recordWorkflowStarted(domainID, execution, workflowTypeName, startTimeUnixNano, workflowTimeout) ==
    UNION {
        LET log == <<Call("GetDomainByID", domainID, lookup)>>
            found == lookup.err = NoError
            domain == IF found THEN lookup.entry.Name ELSE defaultDomainName
            isSampledEnabled == IF found THEN lookup.entry.SampledEnabled ELSE FALSE
            wid == execution.WorkflowId
            msg == [MsgType |-> Some("Open"), DomainID |-> Some(domainID),
                    WorkflowID |-> Some(wid), RunID |-> Some(execution.RunId),
                    WorkflowType |-> Some(workflowTypeName),
                    StartTime |-> Some(startTimeUnixNano),
                    CloseTime |-> Null, CloseStatus |-> Null,
                    HistoryLength |-> Null]
            request == [DomainUUID |-> domainID, Domain |-> domain,
                        Execution |-> execution,
                        WorkflowTypeName |-> workflowTypeName,
                        StartTimestamp |-> startTimeUnixNano,
                        WorkflowTimeout |-> workflowTimeout]
        IN  IF ~found /\ lookup.err # "EntityNotExistsError"
            THEN {Outcome(lookup.err, log)}
            ELSE IF isSampledEnabled /\ ~lookup.entry.Sampled
            THEN {Outcome(NoError, log)}
            ELSE LET published ==
                         IF visibilityProducer # "nil"
                         THEN {Outcome(err, Append(log, Call("Publish", msg, err))) :
                                  err \in PublishResults}
                         ELSE {Outcome(NoError, log)}
                 IN  UNION {IF p.err # NoError THEN {p}
                            ELSE {Outcome(err, Append(p.log,
                                            Call("RecordWorkflowExecutionStarted", request, err))) :
                                     err \in VisibilityStoreResults} :
                            p \in published}
        : lookup \in DomainLookups}

\* recordWorkflowClosed keeping the retention in days
recordWorkflowClosed_RetentionInDays(domainID, execution, workflowTypeName, startTimeUnixNano, endTimeUnixNano, closeStatus, historyLength) ==
    UNION {
        LET log == <<Call("GetDomainByID", domainID, lookup)>>
            found == lookup.err = NoError
            retentionSeconds == IF found THEN lookup.entry.RetentionDays ELSE 0
            domain == IF found THEN lookup.entry.Name ELSE defaultDomainName
            isSampledEnabled == IF found THEN lookup.entry.SampledEnabled ELSE FALSE
            wid == execution.WorkflowId
            msg == [MsgType |-> Some("Closed"), DomainID |-> Some(domainID),
                    WorkflowID |-> Some(wid), RunID |-> Some(execution.RunId),
                    WorkflowType |-> Some(workflowTypeName),
                    StartTime |-> Some(startTimeUnixNano),
                    CloseTime |-> Some(endTimeUnixNano),
                    CloseStatus |-> Some(closeStatus),
                    HistoryLength |-> Some(historyLength)]
            request == [DomainUUID |-> domainID, Domain |-> domain,
                        Execution |-> execution,
                        WorkflowTypeName |-> workflowTypeName,
                        StartTimestamp |-> startTimeUnixNano,
                        CloseTimestamp |-> endTimeUnixNano,
                        Status |-> closeStatus,
                        HistoryLength |-> historyLength,
                        RetentionSeconds |-> retentionSeconds]
        IN  IF ~found /\ lookup.err # "EntityNotExistsError"
            THEN {Outcome(lookup.err, log)}
            ELSE IF isSampledEnabled /\ ~lookup.entry.Sampled
            THEN {Outcome(NoError, log)}
            ELSE LET published ==
                         IF visibilityProducer # "nil"
                         THEN {Outcome(err, Append(log, Call("Publish", msg, err))) :
                                  err \in PublishResults}
                         ELSE {Outcome(NoError, log)}
                 IN  UNION {IF p.err # NoError THEN {p}
                            ELSE {Outcome(err, Append(p.log,
                                            Call("RecordWorkflowExecutionClosed", request, err))) :
                                     err \in VisibilityStoreResults} :
                            p \in published}
        : lookup \in DomainLookups}

\* recordWorkflowClosed recording whether or not the workflow is in the sample
recordWorkflowClosed_NoSampling(domainID, execution, workflowTypeName, startTimeUnixNano, endTimeUnixNano, closeStatus, historyLength) ==
    UNION {
        LET log == <<Call("GetDomainByID", domainID, lookup)>>
            found == lookup.err = NoError
            retentionSeconds ==
                IF found THEN lookup.entry.RetentionDays * secondsInDay ELSE 0
            domain == IF found THEN lookup.entry.Name ELSE defaultDomainName
            isSampledEnabled == IF found THEN lookup.entry.SampledEnabled ELSE FALSE
            wid == execution.WorkflowId
            msg == [MsgType |-> Some("Closed"), DomainID |-> Some(domainID),
                    WorkflowID |-> Some(wid), RunID |-> Some(execution.RunId),
                    WorkflowType |-> Some(workflowTypeName),
                    StartTime |-> Some(startTimeUnixNano),
                    CloseTime |-> Some(endTimeUnixNano),
                    CloseStatus |-> Some(closeStatus),
                    HistoryLength |-> Some(historyLength)]
            request == [DomainUUID |-> domainID, Domain |-> domain,
                        Execution |-> execution,
                        WorkflowTypeName |-> workflowTypeName,
                        StartTimestamp |-> startTimeUnixNano,
                        CloseTimestamp |-> endTimeUnixNano,
                        Status |-> closeStatus,
                        HistoryLength |-> historyLength,
                        RetentionSeconds |-> retentionSeconds]
        IN  IF ~found /\ lookup.err # "EntityNotExistsError"
            THEN {Outcome(lookup.err, log)}
            ELSE IF FALSE
            THEN {Outcome(NoError, log)}
            ELSE LET published ==
                         IF visibilityProducer # "nil"
                         THEN {Outcome(err, Append(log, Call("Publish", msg, err))) :
                                  err \in PublishResults}
                         ELSE {Outcome(NoError, log)}
                 IN  UNION {IF p.err # NoError THEN {p}
                            ELSE {Outcome(err, Append(p.log,
                                            Call("RecordWorkflowExecutionClosed", request, err))) :
                                     err \in VisibilityStoreResults} :
                            p \in published}
        : lookup \in DomainLookups}

\* recordWorkflowClosed
recordWorkflowClosed(domainID, execution, workflowTypeName, startTimeUnixNano, endTimeUnixNano, closeStatus, historyLength) ==
    UNION {
        LET log == <<Call("GetDomainByID", domainID, lookup)>>
            found == lookup.err = NoError
            retentionSeconds ==
                IF found THEN lookup.entry.RetentionDays * secondsInDay ELSE 0
            domain == IF found THEN lookup.entry.Name ELSE defaultDomainName
            isSampledEnabled == IF found THEN lookup.entry.SampledEnabled ELSE FALSE
            wid == execution.WorkflowId
            msg == [MsgType |-> Some("Closed"), DomainID |-> Some(domainID),
                    WorkflowID |-> Some(wid), RunID |-> Some(execution.RunId),
                    WorkflowType |-> Some(workflowTypeName),
                    StartTime |-> Some(startTimeUnixNano),
                    CloseTime |-> Some(endTimeUnixNano),
                    CloseStatus |-> Some(closeStatus),
                    HistoryLength |-> Some(historyLength)]
            request == [DomainUUID |-> domainID, Domain |-> domain,
                        Execution |-> execution,
                        WorkflowTypeName |-> workflowTypeName,
                        StartTimestamp |-> startTimeUnixNano,
                        CloseTimestamp |-> endTimeUnixNano,
                        Status |-> closeStatus,
                        HistoryLength |-> historyLength,
                        RetentionSeconds |-> retentionSeconds]
        IN  IF ~found /\ lookup.err # "EntityNotExistsError"
            THEN {Outcome(lookup.err, log)}
            ELSE IF isSampledEnabled /\ ~lookup.entry.Sampled
            THEN {Outcome(NoError, log)}
            ELSE LET published ==
                         IF visibilityProducer # "nil"
                         THEN {Outcome(err, Append(log, Call("Publish", msg, err))) :
                                  err \in PublishResults}
                         ELSE {Outcome(NoError, log)}
                 IN  UNION {IF p.err # NoError THEN {p}
                            ELSE {Outcome(err, Append(p.log,
                                            Call("RecordWorkflowExecutionClosed", request, err))) :
                                     err \in VisibilityStoreResults} :
                            p \in published}
        : lookup \in DomainLookups}

\* ------------------------------------ transferQueueStandbyProcessorImpl
\* what an action closure leaves: its error, the calls it made, and the
\* variables of the enclosing handler it assigned (nil pointers are Null)
Captured(err, log, timeout, tasklist) ==
    [err |-> err, log |-> log, timeout |-> timeout, tasklist |-> tasklist]

\* discardTask with the window of twice the delay
discardTask_TwiceDelay(transferTask) ==
    LET now == shardTime
    IN  now - transferTask.VisibilityTimestamp > 2 * StandbyClusterDelay

\* discardTask that never gives a task up
discardTask_Never(transferTask) ==
    LET now == shardTime
    IN  FALSE

\* discardTask: the shard's time is already delayed by StandbyClusterDelay
discardTask(transferTask) ==
    LET now == shardTime
    IN  now - transferTask.VisibilityTimestamp > StandbyClusterDelay

\* the activity action admitting a task already at the delay itself
activityAction_AdmitAtDelay(transferTask, msBuilder) ==
    LET pending == GetPendingInfo(msBuilder, transferTask.ScheduleID)
        activityInfo == pending.info
        v == verifyTaskVersion(activityInfo.Version, transferTask.Version)
        now == shardTime
        pushToMatching ==
            now - transferTask.VisibilityTimestamp >= StandbyClusterDelay
    IN  IF ~pending.isPending THEN {Captured(NoError, <<>>, Null, Null)}
        ELSE IF v.err # NoError THEN {Captured(v.err, <<>>, Null, Null)}
        ELSE IF ~v.ok THEN {Captured(NoError, <<>>, Null, Null)}
        ELSE IF activityInfo.StartedID = EmptyEventID
        THEN IF ~pushToMatching THEN {Captured(ErrTaskRetry, <<>>, Null, Null)}
             ELSE {Captured(NoError, <<>>,
                            Some(MinInt32(activityInfo.ScheduleToStartTimeout,
                                          MaxTaskTimeout)), Null)}
        ELSE {Captured(NoError, <<>>, Null, Null)}

\* the activity action giving up on a task older than twice the delay
activityAction_DiscardsLate(transferTask, msBuilder) ==
    LET pending == GetPendingInfo(msBuilder, transferTask.ScheduleID)
        activityInfo == pending.info
        v == verifyTaskVersion(activityInfo.Version, transferTask.Version)
        now == shardTime
        pushToMatching ==
            now - transferTask.VisibilityTimestamp > StandbyClusterDelay
    IN  IF ~pending.isPending THEN {Captured(NoError, <<>>, Null, Null)}
        ELSE IF v.err # NoError THEN {Captured(v.err, <<>>, Null, Null)}
        ELSE IF ~v.ok THEN {Captured(NoError, <<>>, Null, Null)}
        ELSE IF activityInfo.StartedID = EmptyEventID
        THEN IF now - transferTask.VisibilityTimestamp > 2 * StandbyClusterDelay
             THEN {Captured(ErrTaskDiscarded, <<>>, Null, Null)}
             ELSE IF ~pushToMatching THEN {Captured(ErrTaskRetry, <<>>, Null, Null)}
             ELSE {Captured(NoError, <<>>,
                            Some(MinInt32(activityInfo.ScheduleToStartTimeout,
                                          MaxTaskTimeout)), Null)}
        ELSE {Captured(NoError, <<>>, Null, Null)}

\* processActivityTask: the action closure
activityAction(transferTask, msBuilder) ==
    LET pending == GetPendingInfo(msBuilder, transferTask.ScheduleID)
        activityInfo == pending.info
        v == verifyTaskVersion(activityInfo.Version, transferTask.Version)
        now == shardTime
        pushToMatching ==
            now - transferTask.VisibilityTimestamp > StandbyClusterDelay
    IN  IF ~pending.isPending THEN {Captured(NoError, <<>>, Null, Null)}
        ELSE IF v.err # NoError THEN {Captured(v.err, <<>>, Null, Null)}
        ELSE IF ~v.ok THEN {Captured(NoError, <<>>, Null, Null)}
        ELSE IF activityInfo.StartedID = EmptyEventID
        THEN IF ~pushToMatching THEN {Captured(ErrTaskRetry, <<>>, Null, Null)}
             ELSE {Captured(NoError, <<>>,
                            Some(MinInt32(activityInfo.ScheduleToStartTimeout,
                                          MaxTaskTimeout)), Null)}
        ELSE {Captured(NoError, <<>>, Null, Null)}

\* processActivityTask: the post-action closure
activityPostAction(transferTask, activityScheduleToStartTimeout) ==
    IF activityScheduleToStartTimeout = Null THEN {Outcome(NoError, <<>>)}
    ELSE LET timeout == MinInt32(activityScheduleToStartTimeout[1], MaxTaskTimeout)
         IN  pushActivity(transferTask, timeout)

\* processDecisionTask: the action closure.  In the pending branch the error
\* of recordWorkflowStarted is assigned to err and never read.
decisionAction(transferTask, msBuilder) ==
    LET execution == [WorkflowId |-> transferTask.WorkflowID,
                      RunId |-> transferTask.RunID]
        pending == GetPendingInfo(msBuilder, transferTask.ScheduleID)
        decisionInfo == pending.info
        executionInfo == GetExecutionInfo(msBuilder)
        workflowTimeout == executionInfo.WorkflowTimeout
        decisionTimeout == MinInt32(workflowTimeout, MaxTaskTimeout)
        wfTypeName == executionInfo.WorkflowTypeName
        startTimestamp == executionInfo.StartTimestamp
        markWorkflowAsOpen == transferTask.ScheduleID <= FirstEventID + 2
        started == recordWorkflowStarted(transferTask.DomainID, execution,
                       wfTypeName, startTimestamp, workflowTimeout)
        v == verifyTaskVersion(decisionInfo.Version, transferTask.Version)
        now == shardTime
        pushToMatching ==
            now - transferTask.VisibilityTimestamp > StandbyClusterDelay
    IN  IF ~pending.isPending
        THEN IF markWorkflowAsOpen
             THEN {Captured(r.err, r.log, Null, Null) : r \in started}
             ELSE {Captured(NoError, <<>>, Null, Null)}
        ELSE IF v.err # NoError THEN {Captured(v.err, <<>>, Null, Null)}
        ELSE IF ~v.ok THEN {Captured(NoError, <<>>, Null, Null)}
        ELSE {IF decisionInfo.StartedID = EmptyEventID
              THEN IF ~pushToMatching
                   THEN Captured(ErrTaskRetry, r.log, Null, Null)
                   ELSE Captured(NoError, r.log, Some(decisionTimeout),
                                 Some(transferTask.TaskList))
              ELSE Captured(NoError, r.log, Null, Null) :
                r \in IF markWorkflowAsOpen THEN started
                      ELSE {Outcome(NoError, <<>>)}}

\* processDecisionTask: the post-action closure
decisionPostAction(transferTask, decisionScheduleToStartTimeout, tasklist) ==
    IF decisionScheduleToStartTimeout = Null THEN {Outcome(NoError, <<>>)}
    ELSE LET timeout == MinInt32(decisionScheduleToStartTimeout[1], MaxTaskTimeout)
         IN  pushDecision(transferTask, tasklist[1], timeout)

\* the close action recording whatever the last write version is
closeAction_IgnoresVersion(transferTask, msBuilder) ==
    LET execution == [WorkflowId |-> transferTask.WorkflowID,
                      RunId |-> transferTask.RunID]
        executionInfo == GetExecutionInfo(msBuilder)
        workflowTypeName == executionInfo.WorkflowTypeName
        workflowStartTimestamp == executionInfo.StartTimestamp
        workflowCloseTimestamp == GetLastUpdatedTimestamp(msBuilder)
        workflowCloseStatus ==
            getWorkflowExecutionCloseStatus(executionInfo.CloseStatus)
        workflowHistoryLength == GetNextEventID(msBuilder)
        v == verifyTaskVersion(GetLastWriteVersion(msBuilder), transferTask.Version)
    IN  IF IsWorkflowExecutionRunning(msBuilder)
        THEN {Captured(NoError, <<>>, Null, Null)}
        ELSE IF v.err # NoError THEN {Captured(v.err, <<>>, Null, Null)}
        ELSE IF FALSE THEN {Captured(NoError, <<>>, Null, Null)}
        ELSE {Captured(r.err, r.log, Null, Null) :
                 r \in recordWorkflowClosed(transferTask.DomainID, execution,
                           workflowTypeName, workflowStartTimestamp,
                           workflowCloseTimestamp, workflowCloseStatus,
                           workflowHistoryLength)}

\* processCloseExecution: the action closure
closeAction(transferTask, msBuilder) ==
    LET execution == [WorkflowId |-> transferTask.WorkflowID,
                      RunId |-> transferTask.RunID]
        executionInfo == GetExecutionInfo(msBuilder)
        workflowTypeName == executionInfo.WorkflowTypeName
        workflowStartTimestamp == executionInfo.StartTimestamp
        workflowCloseTimestamp == GetLastUpdatedTimestamp(msBuilder)
        workflowCloseStatus ==
            getWorkflowExecutionCloseStatus(executionInfo.CloseStatus)
        workflowHistoryLength == GetNextEventID(msBuilder)
        v == verifyTaskVersion(GetLastWriteVersion(msBuilder), transferTask.Version)
    IN  IF IsWorkflowExecutionRunning(msBuilder)
        THEN {Captured(NoError, <<>>, Null, Null)}
        ELSE IF v.err # NoError THEN {Captured(v.err, <<>>, Null, Null)}
        ELSE IF ~v.ok THEN {Captured(NoError, <<>>, Null, Null)}
        ELSE {Captured(r.err, r.log, Null, Null) :
                 r \in recordWorkflowClosed(transferTask.DomainID, execution,
                           workflowTypeName, workflowStartTimestamp,
                           workflowCloseTimestamp, workflowCloseStatus,
                           workflowHistoryLength)}

\* processCancelExecution: the action closure
cancelAction(transferTask, msBuilder) ==
    LET pending == GetPendingInfo(msBuilder, transferTask.ScheduleID)
        requestCancelInfo == pending.info
        v == verifyTaskVersion(requestCancelInfo.Version, transferTask.Version)
    IN  IF ~pending.isPending THEN {Captured(NoError, <<>>, Null, Null)}
        ELSE IF v.err # NoError THEN {Captured(v.err, <<>>, Null, Null)}
        ELSE IF ~v.ok THEN {Captured(NoError, <<>>, Null, Null)}
        ELSE IF discardTask(transferTask)
        THEN {Captured(ErrTaskDiscarded, <<>>, Null, Null)}
        ELSE {Captured(ErrTaskRetry, <<>>, Null, Null)}

\* processSignalExecution: the action closure
signalAction(transferTask, msBuilder) ==
    LET pending == GetPendingInfo(msBuilder, transferTask.ScheduleID)
        signalInfo == pending.info
        v == verifyTaskVersion(signalInfo.Version, transferTask.Version)
    IN  IF ~pending.isPending THEN {Captured(NoError, <<>>, Null, Null)}
        ELSE IF v.err # NoError THEN {Captured(v.err, <<>>, Null, Null)}
        ELSE IF ~v.ok THEN {Captured(NoError, <<>>, Null, Null)}
        ELSE IF discardTask(transferTask)
        THEN {Captured(ErrTaskDiscarded, <<>>, Null, Null)}
        ELSE {Captured(ErrTaskRetry, <<>>, Null, Null)}

\* processStartChildExecution: the action closure
startChildAction(transferTask, msBuilder) ==
    LET pending == GetPendingInfo(msBuilder, transferTask.ScheduleID)
        childWorkflowInfo == pending.info
        v == verifyTaskVersion(childWorkflowInfo.Version, transferTask.Version)
    IN  IF ~pending.isPending THEN {Captured(NoError, <<>>, Null, Null)}
        ELSE IF v.err # NoError THEN {Captured(v.err, <<>>, Null, Null)}
        ELSE IF ~v.ok THEN {Captured(NoError, <<>>, Null, Null)}
        ELSE IF childWorkflowInfo.StartedID = EmptyEventID
        THEN IF discardTask(transferTask)
             THEN {Captured(ErrTaskDiscarded, <<>>, Null, Null)}
             ELSE {Captured(ErrTaskRetry, <<>>, Null, Null)}
        ELSE {Captured(NoError, <<>>, Null, Null)}

\* postActionNoOp
postActionNoOp == {Outcome(NoError, <<>>)}

\* action(msBuilder), for the closure the named handler passes to processTransfer
runAction(handler, transferTask, msBuilder) ==
    CASE handler = "processActivityTask" -> activityAction(transferTask, msBuilder)
      [] handler = "processDecisionTask" -> decisionAction(transferTask, msBuilder)
      [] handler = "processCloseExecution" -> closeAction(transferTask, msBuilder)
      [] handler = "processCancelExecution" -> cancelAction(transferTask, msBuilder)
      [] handler = "processSignalExecution" -> signalAction(transferTask, msBuilder)
      [] handler = "processStartChildExecution" ->
             startChildAction(transferTask, msBuilder)

\* postAction(), for the closure the named handler passes to processTransfer;
\* ran is what its action closure left
runPostAction(handler, transferTask, ran) ==
    CASE handler = "processActivityTask" ->
             activityPostAction(transferTask, ran.timeout)
      [] handler = "processDecisionTask" ->
             decisionPostAction(transferTask, ran.timeout, ran.tasklist)
      [] OTHER -> postActionNoOp

\* t.cache.getOrCreateWorkflowExecution: nil or an error;
\* loadMutableStateForTransferTask: the mutable state, nil, or an error
AcquireResults == {NoError, "errAcquire"}
LoadResults == {NoError, "nil msBuilder", "errLoadMutableState"}
\* t.transferTaskFilter(task): true, false, or an error
FilterResults == {"true", "false", "errFilter"}

\* processTransfer without the test for a closed workflow
processTransfer_NoClosedCheck(processTaskIfClosed, transferTask, handler) ==
    UNION {
        LET acquired == <<Call("getOrCreateWorkflowExecution",
                               transferTask.RunID, acquire)>>
        IN  IF acquire # NoError THEN {Outcome(acquire, acquired)}
            ELSE {Outcome(body.err,
                          Append(body.log,
                                 Call("release",
                                      IF body.err = ErrTaskRetry THEN NoError ELSE body.err,
                                      NoError))) :
                  body \in UNION {
                      LET log == Append(acquired,
                                     Call("loadMutableStateForTransferTask",
                                          transferTask.RunID, load))
                          msBuilder == mutableState
                      IN  IF load \notin {NoError, "nil msBuilder"}
                          THEN {Outcome(load, log)}
                          ELSE IF load = "nil msBuilder"
                          THEN {Outcome(NoError, log)}
                          ELSE IF FALSE
                          THEN {Outcome(NoError, log)}
                          ELSE UNION {
                              LET ran == Append(log, Call("action", handler, a.err))
                                             \o a.log
                              IN  IF a.err # NoError THEN {Outcome(a.err, ran)}
                                  ELSE {Outcome(pa.err,
                                            Append(Append(ran,
                                                Call("release", NoError, NoError)),
                                                Call("postAction", handler, pa.err))
                                            \o pa.log) :
                                        pa \in runPostAction(handler, transferTask, a)}
                              : a \in runAction(handler, transferTask, msBuilder)}
                      : load \in LoadResults}}
        : acquire \in AcquireResults}

\* processTransfer handing every error, ErrTaskRetry too, to the deferred release
processTransfer_ReleaseGetsRetry(processTaskIfClosed, transferTask, handler) ==
    UNION {
        LET acquired == <<Call("getOrCreateWorkflowExecution",
                               transferTask.RunID, acquire)>>
        IN  IF acquire # NoError THEN {Outcome(acquire, acquired)}
            ELSE {Outcome(body.err,
                          Append(body.log,
                                 Call("release",
                                      body.err,
                                      NoError))) :
                  body \in UNION {
                      LET log == Append(acquired,
                                     Call("loadMutableStateForTransferTask",
                                          transferTask.RunID, load))
                          msBuilder == mutableState
                      IN  IF load \notin {NoError, "nil msBuilder"}
                          THEN {Outcome(load, log)}
                          ELSE IF load = "nil msBuilder"
                          THEN {Outcome(NoError, log)}
                          ELSE IF ~processTaskIfClosed /\ ~IsWorkflowExecutionRunning(msBuilder)
                          THEN {Outcome(NoError, log)}
                          ELSE UNION {
                              LET ran == Append(log, Call("action", handler, a.err))
                                             \o a.log
                              IN  IF a.err # NoError THEN {Outcome(a.err, ran)}
                                  ELSE {Outcome(pa.err,
                                            Append(Append(ran,
                                                Call("release", NoError, NoError)),
                                                Call("postAction", handler, pa.err))
                                            \o pa.log) :
                                        pa \in runPostAction(handler, transferTask, a)}
                              : a \in runAction(handler, transferTask, msBuilder)}
                      : load \in LoadResults}}
        : acquire \in AcquireResults}

\* processTransfer: acquire the execution, defer the release (nil on
\* ErrTaskRetry, the returned error otherwise), load the mutable state, run
\* the action, release(nil), run the post-action
processTransfer(processTaskIfClosed, transferTask, handler) ==
    UNION {
        LET acquired == <<Call("getOrCreateWorkflowExecution",
                               transferTask.RunID, acquire)>>
        IN  IF acquire # NoError THEN {Outcome(acquire, acquired)}
            ELSE {Outcome(body.err,
                          Append(body.log,
                                 Call("release",
                                      IF body.err = ErrTaskRetry THEN NoError ELSE body.err,
                                      NoError))) :
                  body \in UNION {
                      LET log == Append(acquired,
                                     Call("loadMutableStateForTransferTask",
                                          transferTask.RunID, load))
                          msBuilder == mutableState
                      IN  IF load \notin {NoError, "nil msBuilder"}
                          THEN {Outcome(load, log)}
                          ELSE IF load = "nil msBuilder"
                          THEN {Outcome(NoError, log)}
                          ELSE IF ~processTaskIfClosed /\ ~IsWorkflowExecutionRunning(msBuilder)
                          THEN {Outcome(NoError, log)}
                          ELSE UNION {
                              LET ran == Append(log, Call("action", handler, a.err))
                                             \o a.log
                              IN  IF a.err # NoError THEN {Outcome(a.err, ran)}
                                  ELSE {Outcome(pa.err,
                                            Append(Append(ran,
                                                Call("release", NoError, NoError)),
                                                Call("postAction", handler, pa.err))
                                            \o pa.log) :
                                        pa \in runPostAction(handler, transferTask, a)}
                              : a \in runAction(handler, transferTask, msBuilder)}
                      : load \in LoadResults}}
        : acquire \in AcquireResults}

processActivityTask(transferTask) ==
    processTransfer(FALSE, transferTask, "processActivityTask")

processDecisionTask(transferTask) ==
    processTransfer(FALSE, transferTask, "processDecisionTask")

processCloseExecution(transferTask) ==
    processTransfer(TRUE, transferTask, "processCloseExecution")

processCancelExecution(transferTask) ==
    processTransfer(FALSE, transferTask, "processCancelExecution")

processSignalExecution(transferTask) ==
    processTransfer(FALSE, transferTask, "processSignalExecution")

processStartChildExecution(transferTask) ==
    processTransfer(FALSE, transferTask, "processStartChildExecution")

\* process dispatching a task the filter rejected
process_FilterIgnored(qTask) ==
    UNION {
        LET task == qTask
            log == <<Call("transferTaskFilter", task.DomainID, ok)>>
            handled ==
                CASE task.TaskType = TransferTaskTypeActivityTask ->
                         processActivityTask(task)
                  [] task.TaskType = TransferTaskTypeDecisionTask ->
                         processDecisionTask(task)
                  [] task.TaskType = TransferTaskTypeCloseExecution ->
                         processCloseExecution(task)
                  [] task.TaskType = TransferTaskTypeCancelExecution ->
                         processCancelExecution(task)
                  [] task.TaskType = TransferTaskTypeSignalExecution ->
                         processSignalExecution(task)
                  [] task.TaskType = TransferTaskTypeStartChildExecution ->
                         processStartChildExecution(task)
                  [] OTHER -> {Outcome(errUnknownTransferTask, <<>>)}
        IN  IF ok = "errFilter" THEN {Outcome("errFilter", log)}
            ELSE IF FALSE THEN {Outcome(NoError, log)}
            ELSE {Outcome(h.err, log \o h.log) : h \in handled}
        : ok \in FilterResults}

\* process: filter, then dispatch on the task type
process(qTask) ==
    UNION {
        LET task == qTask
            log == <<Call("transferTaskFilter", task.DomainID, ok)>>
            handled ==
                CASE task.TaskType = TransferTaskTypeActivityTask ->
                         processActivityTask(task)
                  [] task.TaskType = TransferTaskTypeDecisionTask ->
                         processDecisionTask(task)
                  [] task.TaskType = TransferTaskTypeCloseExecution ->
                         processCloseExecution(task)
                  [] task.TaskType = TransferTaskTypeCancelExecution ->
                         processCancelExecution(task)
                  [] task.TaskType = TransferTaskTypeSignalExecution ->
                         processSignalExecution(task)
                  [] task.TaskType = TransferTaskTypeStartChildExecution ->
                         processStartChildExecution(task)
                  [] OTHER -> {Outcome(errUnknownTransferTask, <<>>)}
        IN  IF ok = "errFilter" THEN {Outcome("errFilter", log)}
            ELSE IF ok = "false" THEN {Outcome(NoError, log)}
            ELSE {Outcome(h.err, log \o h.log) : h \in handled}
        : ok \in FilterResults}

\* ----------------------------------------------------- the worker's loop
\* a worker takes a task read from the transfer queue; the cache holds some
\* mutable state for its run
Dispatch(task, msBuilder) ==
    /\ taskPhase = "idle"
    /\ queueTask' = task
    /\ mutableState' = msBuilder
    /\ taskPhase' = "ready"
    /\ UNCHANGED <<shardTime, visibilityProducer, attempt, esVars, callVars, queueAckMgr>>

\* the shard's clock for the cluster advances
Tick ==
    /\ taskPhase \in {"idle", "ready"}
    /\ shardTime < MaxShardTime
    /\ shardTime' = shardTime + 1
    /\ UNCHANGED <<queueTask, mutableState, visibilityProducer, taskPhase, attempt,
                   esVars, callVars, queueAckMgr>>

\* the worker calls process(task): one of the outcomes its collaborators allow
Process ==
    /\ taskPhase = "ready"
    /\ \E outcome \in process(queueTask) : attempt' = outcome
    /\ taskPhase' = "done"
    /\ UNCHANGED <<queueTask, mutableState, shardTime, visibilityProducer,
                   esVars, callVars, queueAckMgr>>

\* the worker reads the outcome: ErrTaskRetry keeps the task for another
\* attempt, anything else completes it
Finish ==
    /\ taskPhase = "done"
    /\ attempt' = NoAttempt
    /\ IF attempt.err = ErrTaskRetry
       THEN /\ taskPhase' = "ready"
            /\ UNCHANGED <<queueTask, mutableState>>
       ELSE /\ taskPhase' = "idle"
            /\ queueTask' = NoTask
            /\ mutableState' = NoMutableState
    /\ UNCHANGED <<shardTime, visibilityProducer, esVars, callVars, queueAckMgr>>

\* ------------------------------------- a committed batch with corrupted data
\* the five values getESRequest reads from a header
HeaderFields == {"_index", "_id", "_type", "version", "version_type"}

\* the header of a request with one field left out, or with one field of the
\* other JSON type
HeaderWithout(request, field) ==
    LET m == RequestHeader(request)[request.op]
    IN  request.op :> [f \in DOMAIN m \ {field} |-> m[f]]

HeaderIllTyped(request, field) ==
    LET m == RequestHeader(request)[request.op]
        other == IF m[field].type = "string" THEN "float64" ELSE "string"
    IN  request.op :> [m EXCEPT ![field] = [type |-> other, value |-> m[field].value]]

\* what Source() of a corrupted request can return: an error, a first line
\* that is not JSON, a header with a missing or an ill-typed value
CorruptedSources(request) ==
    {[err |-> TRUE, lines |-> <<>>],
     [err |-> FALSE, lines |-> <<NotJSON, MarshalDoc(request.doc)>>]}
    \cup {[err |-> FALSE,
           lines |-> <<HeaderWithout(request, f), MarshalDoc(request.doc)>>] :
             f \in HeaderFields}
    \cup {[err |-> FALSE,
           lines |-> <<HeaderIllTyped(request, f), MarshalDoc(request.doc)>>] :
             f \in HeaderFields}

\* the request with its source replaced
WithSource(request, source) == [source |-> source] @@ request

\* the requests a committed batch can hold for run id: the Open request, as
\* the indexer made it or with a corrupted source
BatchRequests(id) ==
    {OpenRequest(id)}
        \cup {WithSource(OpenRequest(id), c) : c \in CorruptedSources(OpenRequest(id))}

\* the requests of one commit: one per run, each under its handle
Slots == {i \in Handles : i <= BulkActions /\ i <= NumDocs}

\* the state in which a flusher has committed a batch and its After callback
\* is due: every request of the batch was passed to Add with its handle, the
\* flush failed as a whole or Elasticsearch answered each request
CorruptInit ==
    /\ NoCalls
    /\ StandbyIdle /\ visibilityProducer = "kafka"
    /\ staged = <<>>
    /\ added = [h \in Handles |-> IF h \in Slots THEN DocKey(h, "Open") ELSE NoKey]
    /\ mapToKafkaMsg = [k \in {DocKey(h, "Open") : h \in Slots} |-> k[1]]
    /\ acked = [h \in Handles |-> 0]
    /\ ackedOn = [h \in Handles |-> "none"]
    /\ \E err \in BOOLEAN, status \in [Slots -> {200, 409, 500}] :
          /\ err => \A i \in Slots : status[i] = 500
          /\ esVersion = [d \in DocIDs |->
                            IF d \notin Slots \/ status[d] = 500 THEN 0
                            ELSE IF status[d] = 200 THEN versionForOpen
                            ELSE versionForClose]
          /\ \E requests \in [Slots -> UNION {BatchRequests(id) : id \in Slots}] :
                /\ \A i \in Slots : requests[i].id = i
                /\ batches =
                     [w \in Workers |->
                        IF w = 1
                        THEN [requests |-> [i \in Slots |-> requests[i]],
                              items |-> IF err THEN <<>>
                                        ELSE [i \in Slots |->
                                                [Id |-> i, Status |-> status[i]]],
                              err |-> err]
                        ELSE NoBatch]

CorruptNext == \E w \in Workers : After(w)

CorruptSpec == CorruptInit /\ [][CorruptNext]_vars

StandbyInit ==
    /\ NoCalls
    /\ StandbyIdle /\ visibilityProducer \in {"nil", "kafka"}
    /\ mapToKafkaMsg = <<>>
    /\ staged = <<>>
    /\ batches = [w \in Workers |-> NoBatch]
    /\ esVersion = [d \in DocIDs |-> 0]
    /\ added = [h \in Handles |-> NoKey]
    /\ acked = [h \in Handles |-> 0]
    /\ ackedOn = [h \in Handles |-> "none"]

StandbyNext ==
    \/ \E task \in TransferTasks :
          \E msBuilder \in MutableStatesFor(task) : Dispatch(task, msBuilder)
    \/ Tick
    \/ Process
    \/ Finish

StandbySpec == StandbyInit /\ [][StandbyNext]_vars

\* ------------------------------------------- one task invoked over and over
\* the results with which a collaborator reports a failure
FailureResults ==
    {"errFilter", "errAcquire", "errLoadMutableState", "errDomainCache",
     "errMatching", "errPublish", "errVisibilityStore"}

\* no call of the log failed (a domain that is not found is an answer of the
\* domain cache, not a failure), the task is one for this cluster and the
\* handler was given the mutable state
Unfailing(log) ==
    \A i \in 1..Len(log) :
        CASE log[i].call = "GetDomainByID" ->
                 log[i].result.err \notin FailureResults
          [] log[i].call = "transferTaskFilter" -> log[i].result = "true"
          [] log[i].call = "loadMutableStateForTransferTask" ->
                 log[i].result = NoError
          [] OTHER -> log[i].result \notin FailureResults

\* process(task) is invoked again on the task the worker holds, with
\* collaborators that do not fail; the task and the mutable state stay as
\* they are and attempt holds the outcome of the latest invocation
Invoke ==
    /\ taskPhase = "ready"
    /\ \E outcome \in process(queueTask) :
          Unfailing(outcome.log) /\ attempt' = outcome
    /\ UNCHANGED <<queueTask, mutableState, shardTime, visibilityProducer,
                   taskPhase, esVars, callVars, queueAckMgr>>

RetryNext ==
    \/ \E task \in TransferTasks :
          \E msBuilder \in MutableStatesFor(task) : Dispatch(task, msBuilder)
    \/ Tick
    \/ Invoke

\* the shard's time keeps advancing and the task keeps being invoked
RetrySpec ==
    StandbyInit /\ [][RetryNext]_vars /\ WF_vars(Tick) /\ WF_vars(Invoke)

\* -------------------------------------------- the poll-dispatch-ack loop
\* QueueProcessorOptions.WorkerCount and MaxRetryCount: the workers of the
\* standby queue processor and the retry budget of a task
WorkerCount == 2

MaxRetryCount == 1

\* the errors a handler can return besides nil: the two sentinels and, for
\* the failures of its collaborators, one of them
HandlerErrors == {ErrTaskRetry, ErrTaskDiscarded, "errMatching"}

\* the tasks read so far and their state: "queued" (read, waiting for a
\* worker), "inflight" (a worker is inside process), "retry" (process
\* returned ErrTaskRetry or a failure, the worker will call it again),
\* "done" (completed: nil or ErrTaskDiscarded), "dropped" (retry budget used up)
TaskState(id) == queueAckMgr.outstandingTasks[id].state

WithTask(id, state, retryCount, err) ==
    [queueAckMgr EXCEPT !.outstandingTasks[id] =
        [state |-> state, retryCount |-> retryCount, err |-> err]]

\* the tasks a worker holds: inside process or between two attempts
HeldTasks == {id \in TaskIDs : TaskState(id) \in {"inflight", "retry"}}

\* readTasks(readLevel): the next tasks above the read level, up to the
\* shard's max read level, become known to the ack manager
readTasks(readLevel) ==
    {[tasks |-> (readLevel + 1)..last, readLevel |-> last] :
        last \in (readLevel + 1)..NumTasks}

ReadQueueTasks ==
    /\ \E batch \in readTasks(queueAckMgr.readLevel) :
          queueAckMgr' =
              [queueAckMgr EXCEPT
                 !.readLevel = batch.readLevel,
                 !.outstandingTasks =
                     [id \in TaskIDs |->
                        IF id \in batch.tasks
                        THEN [state |-> "queued", retryCount |-> 0, err |-> "none"]
                        ELSE @[id]]]
    /\ UNCHANGED <<queueTask, mutableState, shardTime, visibilityProducer,
                   taskPhase, attempt, esVars, callVars>>

\* a free worker takes the next queued task, or calls process again on a
\* task it holds for a retry
StartTask(id) ==
    /\ \/ /\ TaskState(id) = "queued"
          /\ \A other \in TaskIDs : TaskState(other) = "queued" => id <= other
          /\ Cardinality(HeldTasks) < WorkerCount
       \/ TaskState(id) = "retry"
    /\ queueAckMgr' = WithTask(id, "inflight",
                               queueAckMgr.outstandingTasks[id].retryCount,
                               queueAckMgr.outstandingTasks[id].err)
    /\ UNCHANGED <<queueTask, mutableState, shardTime, visibilityProducer,
                   taskPhase, attempt, esVars, callVars>>

\* process returns for the task: nil and ErrTaskDiscarded complete it;
\* ErrTaskRetry and failures keep it with the worker for another attempt
\* while the retry budget lasts, after which it is dropped without being
\* completed
FinishTask(id, err) ==
    /\ TaskState(id) = "inflight"
    /\ LET retryCount == queueAckMgr.outstandingTasks[id].retryCount
       IN  queueAckMgr' =
               IF err \in {NoError, ErrTaskDiscarded}
               THEN WithTask(id, "done", retryCount, err)
               ELSE IF retryCount >= MaxRetryCount
               THEN WithTask(id, "dropped", retryCount, err)
               ELSE WithTask(id, "retry", retryCount + 1, err)
    /\ UNCHANGED <<queueTask, mutableState, shardTime, visibilityProducer,
                   taskPhase, attempt, esVars, callVars>>

\* updateClusterAckLevel: shard.UpdateTransferClusterAckLevel(clusterName,
\* ackLevel), which stores the level unless it fails
updateClusterAckLevel(ackLevel) ==
    {[err |-> NoError, clusterAckLevel |-> ackLevel],
     [err |-> "errShard", clusterAckLevel |-> queueAckMgr.clusterAckLevel]}

\* updateAckLevel handing the level after the one it is given to the shard
updateAckLevel_OneAhead(ackLevel) == updateClusterAckLevel(ackLevel + 1)

\* transferQueueProcessorBase.updateAckLevel
updateAckLevel(ackLevel) == updateClusterAckLevel(ackLevel)

\* the ack level the ack manager computes: the lowest task id read and not
\* yet completed, minus one
NextAckLevel ==
    LET pending == {id \in 1..queueAckMgr.readLevel : TaskState(id) # "done"}
    IN  IF pending = {} THEN queueAckMgr.readLevel
        ELSE (CHOOSE id \in pending : \A other \in pending : id <= other) - 1

\* the ack-level updater's tick
UpdateAckLevel ==
    /\ \E updated \in updateAckLevel(NextAckLevel) :
          queueAckMgr' = [queueAckMgr EXCEPT
                            !.ackLevel = NextAckLevel,
                            !.clusterAckLevel = updated.clusterAckLevel]
    /\ UNCHANGED <<queueTask, mutableState, shardTime, visibilityProducer,
                   taskPhase, attempt, esVars, callVars>>

AckNext ==
    \/ ReadQueueTasks
    \/ \E id \in TaskIDs : StartTask(id)
    \/ \E id \in TaskIDs : \E err \in {NoError} \cup HandlerErrors : FinishTask(id, err)
    \/ UpdateAckLevel

AckSpec == Init /\ [][AckNext]_vars

\* ------------------------------------------------- reading an attempt
\* process has returned for the held task
Done == taskPhase = "done"

\* the attempt got as far as the handler's processTransfer with a loaded
\* mutable state: the filter passed, the execution was acquired, the load
\* returned the mutable state
Loaded ==
    /\ Done
    /\ Len(attempt.log) >= 3
    /\ attempt.log[1].call = "transferTaskFilter" /\ attempt.log[1].result = "true"
    /\ attempt.log[2].call = "getOrCreateWorkflowExecution"
    /\ attempt.log[2].result = NoError
    /\ attempt.log[3].call = "loadMutableStateForTransferTask"
    /\ attempt.log[3].result = NoError

\* now - task.visibilityTimestamp on the shard's clock
Elapsed == shardTime - queueTask.VisibilityTimestamp

\* the calls of the attempt on the matching service, the bus, the visibility store
MatchingCalls ==
    CallsOf(attempt.log, "AddActivityTask") \cup CallsOf(attempt.log, "AddDecisionTask")

PublishCalls == CallsOf(attempt.log, "Publish")

StoreCalls ==
    CallsOf(attempt.log, "RecordWorkflowExecutionStarted")
        \cup CallsOf(attempt.log, "RecordWorkflowExecutionClosed")

\* the task's event is pending in the mutable state, with the task's version
PendingInfo == GetPendingInfo(mutableState, queueTask.ScheduleID)

\* ---------------------------------------------------- reading a single step
\* the step is the After callback of flusher w
AfterStep(w) == batches[w] # NoBatch /\ batches'[w] = NoBatch

\* the step is Add(.., key, h)
AddStep(h) == added[h] = NoKey /\ added'[h] # NoKey

\* the requests the step handed to the bulk processor
NewlySubmitted == SubSeq(staged', Len(staged) + 1, Len(staged'))

\* the requests that wait in the bulk processor: staged, or committed with
\* their After callback still due
Pending ==
    {staged[i] : i \in 1..Len(staged)} \cup
    UNION {{batches[w].requests[i] : i \in 1..Len(batches[w].requests)} :
              w \in {x \in Workers : batches[x] # NoBatch}}

\* the handles the in-flight table holds
InFlight == {mapToKafkaMsg[k] : k \in DOMAIN mapToKafkaMsg}

IsSuccess(status) == status >= 200 /\ status < 300

\* the two requests agree on operation, index, type, id, version and version type
SameHeader(a, b) ==
    /\ a.op = b.op /\ a.index = b.index /\ a.typ = b.typ /\ a.id = b.id
    /\ a.version = b.version /\ a.versionType = b.versionType

\* ------------------------------------------------------------------ claims
\* C1: bulk processor liveness.  Every handle passed to Add is eventually
\* acked, and no handle stays in the in-flight table for ever, when due After
\* callbacks run and Elasticsearch keeps answering staged requests with their
\* 2xx / 409 status.
C1_EveryHandleEventuallyAcked ==
    \A h \in Handles :
        /\ (added[h] # NoKey) ~> (acked[h] >= 1)
        /\ (h \in InFlight) ~> (h \notin InFlight)

\* C2: at-most-once ack.  No handle is acked more than once, and a handle
\* acked by reconciliation is no longer in the in-flight table.
C2_AtMostOnceAck ==
    \A h \in Handles :
        /\ acked[h] <= 1
        /\ ackedOn[h] \in {"success", "conflict"} => h \notin InFlight

\* C2's case: two handles added with the same key, one after the other, each
\* acked once by reconciliation (a repeated response for the key).
C2_Witness ==
    \E h1, h2 \in Handles :
        /\ h1 # h2 /\ added[h1] # NoKey /\ added[h1] = added[h2]
        /\ ackedOn[h1] \in {"success", "conflict"}
        /\ ackedOn[h2] \in {"success", "conflict"}
        /\ acked[h1] = 1 /\ acked[h2] = 1

\* C3: duplicate Add.  An Add whose key is in the in-flight table acks the new
\* handle once, submits nothing and leaves the table as it is; an Add whose key
\* is absent puts key -> handle, submits the request once and acks nothing.  A
\* later successful commit for a key acks the handle the table holds for it.
C3_DuplicateAdd ==
    [][/\ \A h \in Handles : AddStep(h) =>
            LET key == added'[h]
            IN  IF Contains(mapToKafkaMsg, key)
                THEN /\ acked' = [acked EXCEPT ![h] = @ + 1]
                     /\ staged' = staged
                     /\ mapToKafkaMsg' = mapToKafkaMsg
                ELSE /\ mapToKafkaMsg' = Put(mapToKafkaMsg, key, h)
                     /\ Len(NewlySubmitted) = 1
                     /\ RequestKey(NewlySubmitted[1]) = key
                     /\ SubSeq(staged', 1, Len(staged)) = staged
                     /\ acked' = acked
       /\ \A w \in Workers : AfterStep(w) /\ ~batches[w].err =>
            \A i \in 1..Len(batches[w].items) :
                LET key == ItemKey(batches[w], i)
                IN  IsSuccess(batches[w].items[i].Status)
                    /\ Contains(mapToKafkaMsg, key)
                    => acked'[mapToKafkaMsg[key]] = acked[mapToKafkaMsg[key]] + 1
      ]_vars

\* C3's case: the second handle of a key was acked by Add as a duplicate, and
\* the first was acked by the successful commit that followed.
C3_Witness ==
    \E h1, h2 \in Handles :
        /\ h1 < h2 /\ added[h1] # NoKey /\ added[h1] = added[h2]
        /\ ackedOn[h2] = "duplicate" /\ acked[h2] = 1
        /\ ackedOn[h1] = "success" /\ acked[h1] = 1

\* C4: successful item reconciliation.  In an After callback without flush
\* error, for every response item with a status in [200,300) the handle under
\* the item's key is acked, the key leaves the in-flight table, and the request
\* is not handed to the bulk processor again.
C4_SuccessAcksAndRemoves ==
    [][\A w \in Workers : AfterStep(w) /\ ~batches[w].err =>
          \A i \in 1..Len(batches[w].items) :
              LET key == ItemKey(batches[w], i)
              IN  IsSuccess(batches[w].items[i].Status) =>
                    /\ Contains(mapToKafkaMsg, key) =>
                          acked'[mapToKafkaMsg[key]] = acked[mapToKafkaMsg[key]] + 1
                    /\ ~Contains(mapToKafkaMsg', key)
                    /\ \A j \in 1..Len(NewlySubmitted) :
                          RequestKey(NewlySubmitted[j]) # key
      ]_vars

\* C4's case: a handle acked on a 2xx response item, its key gone from the table.
C4_Witness ==
    \E h \in Handles :
        /\ ackedOn[h] = "success" /\ acked[h] = 1
        /\ ~Contains(mapToKafkaMsg, added[h])
        /\ esVersion[added[h][1]] >= versionForOpen

\* C5: version conflict is success.  In an After callback without flush error,
\* for every response item with status 409 the handle under the item's key is
\* acked, the key leaves the in-flight table, and the request is not handed to
\* the bulk processor again.
C5_ConflictAcksAndRemoves ==
    [][\A w \in Workers : AfterStep(w) /\ ~batches[w].err =>
          \A i \in 1..Len(batches[w].items) :
              LET key == ItemKey(batches[w], i)
              IN  batches[w].items[i].Status = 409 =>
                    /\ Contains(mapToKafkaMsg, key) =>
                          acked'[mapToKafkaMsg[key]] = acked[mapToKafkaMsg[key]] + 1
                    /\ ~Contains(mapToKafkaMsg', key)
                    /\ \A j \in 1..Len(NewlySubmitted) :
                          RequestKey(NewlySubmitted[j]) # key
      ]_vars

\* C5's case: a handle acked on a 409 response item, its key gone from the
\* table, nothing of that key waiting in the bulk processor.
C5_Witness ==
    \E h \in Handles :
        /\ ackedOn[h] = "conflict" /\ acked[h] = 1
        /\ ~Contains(mapToKafkaMsg, added[h])
        /\ \A r \in Pending : RequestKey(r) # added[h]

\* how many requests of a sequence carry the header of r
CountSameHeader(requests, r) ==
    Cardinality({j \in 1..Len(requests) : SameHeader(requests[j], r)})

\* C6: per-item failure retry.  In an After callback without flush error, for
\* every response item whose status is neither in [200,300) nor 409, the request
\* is rebuilt and handed to the bulk processor again, its handle is not acked
\* and its key stays in the in-flight table, for index and delete requests alike.
C6_FailedItemResubmitted ==
    [][\A w \in Workers : AfterStep(w) /\ ~batches[w].err =>
          \A i \in 1..Len(batches[w].items) :
              LET key == ItemKey(batches[w], i)
                  status == batches[w].items[i].Status
              IN  ~IsSuccess(status) /\ status # 409 =>
                    /\ CountSameHeader(NewlySubmitted, batches[w].requests[i]) = 1
                    /\ Contains(mapToKafkaMsg, key) =>
                          /\ Contains(mapToKafkaMsg', key)
                          /\ mapToKafkaMsg'[key] = mapToKafkaMsg[key]
                          /\ acked'[mapToKafkaMsg[key]] = acked[mapToKafkaMsg[key]]
      ]_vars

\* C7: whole-batch flush error.  In an After callback with a flush error no
\* handle is acked, the in-flight table is unchanged, and every request of the
\* batch is rebuilt and handed to the bulk processor again exactly once.
C7_FlushErrorResubmitsAll ==
    [][\A w \in Workers : AfterStep(w) /\ batches[w].err =>
          /\ acked' = acked
          /\ mapToKafkaMsg' = mapToKafkaMsg
          /\ Len(NewlySubmitted) = Len(batches[w].requests)
          /\ \A i \in 1..Len(batches[w].requests) :
                CountSameHeader(NewlySubmitted, batches[w].requests[i])
                    = CountSameHeader(batches[w].requests, batches[w].requests[i])
      ]_vars

\* C8: ack implies represented.  Whenever a handle is acked, either the batch
\* being reconciled carries a 2xx or 409 answer of Elasticsearch for the
\* handle's key, or a request with that key waits in the bulk processor (staged,
\* or committed with its After callback due).
C8_AckImpliesRepresented ==
    [][\A h \in Handles : acked'[h] > acked[h] =>
          LET key == added'[h]
          IN  \/ \E w \in Workers :
                    /\ AfterStep(w)
                    /\ AnswerClass(batches[w], key) \in {"success", "conflict"}
              \/ \E r \in Pending : RequestKey(r) = key
      ]_vars

\* C9: the request parser rebuilds both operations.  For every request that
\* waits in the bulk processor, getESRequest of its source is the same index
\* request with the original document, or a (non-nil) delete request with the
\* same index, type, id, version and version type.
C9_ParserRebuildsBothOperations ==
    \A r \in Pending :
        LET rebuilt == getESRequest(Source(r))
        IN  /\ r.op = esRequestTypeIndex => rebuilt = r
            /\ r.op = esRequestTypeDelete =>
                  /\ rebuilt # NilRequest
                  /\ rebuilt.op = esRequestTypeDelete
                  /\ SameHeader(rebuilt, r)

\* C10: document version monotonicity.  For every document id the version
\* Elasticsearch stores never decreases, whatever the order of delivery,
\* duplication and re-submission of Open / Closed / Delete messages.
C10_StoredVersionNeverDecreases ==
    [][\A d \in DocIDs : esVersion'[d] >= esVersion[d]]_vars

\* C10's case: an Open message that reached Elasticsearch after the Closed one
\* of its run was answered 409 and acked, the stored version still that of Closed.
C10_Witness ==
    \E h \in Handles, d \in DocIDs :
        /\ added[h] = DocKey(d, "Open")
        /\ ackedOn[h] = "conflict"
        /\ esVersion[d] = versionForClose

\* the step is the commit of a batch by flusher w
CommitStep(w) == batches[w] = NoBatch /\ batches'[w] # NoBatch

\* nothing of the handle's key waits any more: not in the in-flight table, not
\* in the bulk processor
Reconciled(h) ==
    /\ added[h] # NoKey
    /\ ~Contains(mapToKafkaMsg, added[h])
    /\ \A r \in Pending : RequestKey(r) # added[h]

\* C11: out-of-order collapse.  For one run id whose Open and Closed messages
\* were both added (in either order, no Delete message of the run among the
\* added ones): once both are reconciled the stored version is versionForClose
\* and both handles are acked once; an Open request that Elasticsearch answers
\* when the stored version is already that of Closed gets 409; and the two
\* messages use distinct in-flight keys, so a handle is acked as a duplicate
\* only when an earlier handle carried the very same key.
C11_OutOfOrderCollapse ==
    /\ [](\A d \in DocIDs, hO, hC \in Handles :
            /\ added[hO] = DocKey(d, "Open") /\ added[hC] = DocKey(d, "Closed")
            /\ Reconciled(hO) /\ Reconciled(hC)
            /\ \A h \in Handles : added[h] # DocKey(d, "Delete")
            => /\ esVersion[d] = versionForClose
               /\ acked[hO] = 1 /\ acked[hC] = 1)
    /\ [](\A h \in Handles : ackedOn[h] = "duplicate" =>
            \E h0 \in Handles : h0 < h /\ added[h0] = added[h])
    /\ [](\A d \in DocIDs : DocKey(d, "Open") # DocKey(d, "Closed"))
    /\ [][\A w \in Workers : CommitStep(w) /\ ~batches'[w].err =>
            \A i \in 1..Len(batches'[w].items) :
                LET r == batches'[w].requests[i]
                IN  /\ r.op = esRequestTypeIndex /\ r.version = versionForOpen
                    /\ esVersion[r.id] >= versionForClose
                    /\ batches'[w].items[i].Status # 500
                    => batches'[w].items[i].Status = 409
       ]_vars

\* C11's case: the Closed message of a run was indexed first, the Open one
\* came after it, was answered 409 and acked; nothing of the run is left in
\* the table and the stored version is that of Closed.
C11_Witness ==
    \E d \in DocIDs, hO, hC \in Handles :
        /\ added[hO] = DocKey(d, "Open") /\ added[hC] = DocKey(d, "Closed")
        /\ hC < hO
        /\ ackedOn[hC] = "success" /\ ackedOn[hO] = "conflict"
        /\ Reconciled(hO) /\ Reconciled(hC)
        /\ acked[hO] = 1 /\ acked[hC] = 1
        /\ esVersion[d] = versionForClose

\* no goroutine is inside Add or ackKafkaMsg and nothing waits for Elasticsearch
StepQuiet == NoCalls /\ staged = <<>>

\* C12: Add racing with reconciliation.  Whatever the interleaving of the
\* statements of Add (Contains, Ack or Put, submit) with those of ackKafkaMsg
\* (Get, Ack, Remove) on the same key: no handle is ever acked twice; a handle
\* passed to Add is eventually acked; and once both goroutines are out of
\* their calls with nothing staged, every handle passed to Add has been acked
\* exactly once, as a duplicate by Add or by a commit that followed its
\* submission, and the table is empty.
C12_AddRacingWithReconciliation ==
    /\ [](\A h \in Handles : acked[h] <= 1)
    /\ [](StepQuiet =>
            /\ mapToKafkaMsg = <<>>
            /\ \A h \in Handles : added[h] # NoKey =>
                  /\ acked[h] = 1
                  /\ ackedOn[h] \in {"duplicate", "success"})
    /\ \A h \in Handles : (added[h] # NoKey) ~> (acked[h] = 1)
    /\ \A h \in Handles :
          (added[h] # NoKey /\ Contains(mapToKafkaMsg, added[h])
             /\ mapToKafkaMsg[added[h]] = h) ~> (ackedOn[h] = "success")

\* C12's case: Add(request2, k, h2) ran its Contains test while ackKafkaMsg(k)
\* for the earlier handle h1 was between its Get and its Remove, so h2 was
\* acked as a duplicate and h1 by the reconciliation, each once.
C12_Witness ==
    \E h1, h2 \in Handles :
        /\ h1 < h2 /\ added[h1] # NoKey /\ added[h1] = added[h2]
        /\ ackCall.pc = "Remove" /\ ackCall.msg = h1 /\ ackCall.key = added[h1]
        /\ addCall = NoCall
        /\ ackedOn[h2] = "duplicate" /\ acked[h2] = 1
        /\ ackedOn[h1] = "success" /\ acked[h1] = 1

\* C13: standby filter.  When the filter answers false for a task, process
\* returns nil and has called nothing but the filter (no handler ran); when
\* the filter fails, process returns the filter's error, again with no handler.
C13_StandbyFilter ==
    Done =>
        /\ attempt.log[1].call = "transferTaskFilter"
        /\ attempt.log[1].result = "false"
              => attempt.err = NoError /\ Len(attempt.log) = 1
        /\ attempt.log[1].result = "errFilter"
              => attempt.err = "errFilter" /\ Len(attempt.log) = 1

\* C13's case: a close-execution task of a closed workflow whose last write
\* version is the task's, rejected by the filter: nil, nothing recorded.
C13_Witness ==
    /\ Done /\ attempt.log[1].result = "false"
    /\ queueTask.TaskType = TransferTaskTypeCloseExecution
    /\ ~IsWorkflowExecutionRunning(mutableState)
    /\ GetLastWriteVersion(mutableState) = queueTask.Version
    /\ attempt.err = NoError /\ StoreCalls = {} /\ PublishCalls = {}

\* the matching call and the timeout an admitted task of the held type is
\* pushed with
AdmissionCall ==
    IF queueTask.TaskType = TransferTaskTypeActivityTask
    THEN "AddActivityTask" ELSE "AddDecisionTask"

AdmissionTimeout ==
    IF queueTask.TaskType = TransferTaskTypeActivityTask
    THEN MinInt32(PendingInfo.info.ScheduleToStartTimeout, MaxTaskTimeout)
    ELSE MinInt32(GetExecutionInfo(mutableState).WorkflowTimeout, MaxTaskTimeout)

\* the attempt returned the error of a failed call made by recordWorkflowStarted
ReturnedStartedError ==
    /\ attempt.err # NoError
    /\ \E i \in 1..Len(attempt.log) :
          \/ /\ attempt.log[i].call = "GetDomainByID"
             /\ attempt.log[i].result.err = attempt.err
          \/ /\ attempt.log[i].call \in {"Publish", "RecordWorkflowExecutionStarted"}
             /\ attempt.log[i].result = attempt.err

\* C14 as stated: time-based admission for activity and decision tasks of a
\* running workflow; an info that is not pending, or a startedID that is not
\* EmptyEventID, always gives nil and no matching call.
C14_Original ==
    Loaded /\ IsWorkflowExecutionRunning(mutableState)
      /\ queueTask.TaskType \in {TransferTaskTypeActivityTask,
                                 TransferTaskTypeDecisionTask}
    => LET info == PendingInfo.info
           admitted == /\ PendingInfo.isPending
                       /\ info.Version = queueTask.Version
                       /\ info.StartedID = EmptyEventID
       IN  /\ admitted /\ Elapsed <= StandbyClusterDelay
              => attempt.err = ErrTaskRetry /\ MatchingCalls = {}
           /\ admitted /\ Elapsed > StandbyClusterDelay
              => /\ Cardinality(MatchingCalls) = 1
                 /\ \A i \in MatchingCalls :
                       /\ attempt.log[i].call = AdmissionCall
                       /\ attempt.log[i].arg.ScheduleToStartTimeoutSeconds
                             = AdmissionTimeout
                       /\ attempt.err = attempt.log[i].result
           /\ ~PendingInfo.isPending \/ info.StartedID # EmptyEventID
              => /\ MatchingCalls = {}
                 /\ attempt.err = NoError

\* C14: time-based admission for activity and decision tasks of a running
\* workflow.  With the info pending, the versions equal and startedID =
\* EmptyEventID: elapsed <= StandbyClusterDelay gives ErrTaskRetry and no
\* matching call; elapsed > StandbyClusterDelay gives exactly one matching Add
\* call, with timeout min(scheduleToStartTimeout, MaxTaskTimeout) for an
\* activity and min(workflowTimeout, MaxTaskTimeout) for a decision, whose
\* result process returns.  With the info not pending or startedID not
\* EmptyEventID there is no matching call and the result is nil, except for a
\* decision task with scheduleID <= FirstEventID+2 whose decision is not
\* pending: there recordWorkflowStarted runs and its error is returned.
C14_TimeBasedAdmission ==
    Loaded /\ IsWorkflowExecutionRunning(mutableState)
      /\ queueTask.TaskType \in {TransferTaskTypeActivityTask,
                                 TransferTaskTypeDecisionTask}
    => LET info == PendingInfo.info
           admitted == /\ PendingInfo.isPending
                       /\ info.Version = queueTask.Version
                       /\ info.StartedID = EmptyEventID
       IN  /\ admitted /\ Elapsed <= StandbyClusterDelay
              => attempt.err = ErrTaskRetry /\ MatchingCalls = {}
           /\ admitted /\ Elapsed > StandbyClusterDelay
              => /\ Cardinality(MatchingCalls) = 1
                 /\ \A i \in MatchingCalls :
                       /\ attempt.log[i].call = AdmissionCall
                       /\ attempt.log[i].arg.ScheduleToStartTimeoutSeconds
                             = AdmissionTimeout
                       /\ attempt.err = attempt.log[i].result
           /\ ~PendingInfo.isPending \/ info.StartedID # EmptyEventID
              => /\ MatchingCalls = {}
                 /\ \/ attempt.err = NoError
                    \/ /\ queueTask.TaskType = TransferTaskTypeDecisionTask
                       /\ ~PendingInfo.isPending
                       /\ queueTask.ScheduleID <= FirstEventID + 2
                       /\ ReturnedStartedError

\* C14's case: a pending, unstarted decision of the task's version, the task
\* older than the delay: one AddDecisionTask with the workflow timeout cut to
\* MaxTaskTimeout, its nil returned.
C14_Witness ==
    /\ Loaded /\ IsWorkflowExecutionRunning(mutableState)
    /\ queueTask.TaskType = TransferTaskTypeDecisionTask
    /\ PendingInfo.isPending /\ PendingInfo.info.Version = queueTask.Version
    /\ PendingInfo.info.StartedID = EmptyEventID
    /\ Elapsed > StandbyClusterDelay
    /\ GetExecutionInfo(mutableState).WorkflowTimeout > MaxTaskTimeout
    /\ Cardinality(MatchingCalls) = 1
    /\ \A i \in MatchingCalls :
          attempt.log[i].arg.ScheduleToStartTimeoutSeconds = MaxTaskTimeout
    /\ attempt.err = NoError

\* C15 as stated: the discard window of cancel, signal and start-child tasks
\* is twice the delay on the shard's clock.
C15_Original ==
    Loaded /\ IsWorkflowExecutionRunning(mutableState)
      /\ queueTask.TaskType \in {TransferTaskTypeCancelExecution,
                                 TransferTaskTypeSignalExecution,
                                 TransferTaskTypeStartChildExecution}
      /\ PendingInfo.isPending
      /\ PendingInfo.info.Version = queueTask.Version
      /\ (queueTask.TaskType = TransferTaskTypeStartChildExecution
            => PendingInfo.info.StartedID = EmptyEventID)
    => /\ Elapsed <= 2 * StandbyClusterDelay => attempt.err = ErrTaskRetry
       /\ Elapsed > 2 * StandbyClusterDelay => attempt.err = ErrTaskDiscarded
       /\ MatchingCalls = {} /\ PublishCalls = {} /\ StoreCalls = {}

\* C15: discard window.  For a cancel, signal or start-child task of a
\* running workflow whose info is pending with the task's version (and, for
\* start-child, not started): ErrTaskRetry for every elapsed <=
\* StandbyClusterDelay and ErrTaskDiscarded exactly when elapsed >
\* StandbyClusterDelay, elapsed being shard time minus the task's visibility
\* timestamp; nothing is pushed, published or recorded.
C15_DiscardWindow ==
    Loaded /\ IsWorkflowExecutionRunning(mutableState)
      /\ queueTask.TaskType \in {TransferTaskTypeCancelExecution,
                                 TransferTaskTypeSignalExecution,
                                 TransferTaskTypeStartChildExecution}
      /\ PendingInfo.isPending
      /\ PendingInfo.info.Version = queueTask.Version
      /\ (queueTask.TaskType = TransferTaskTypeStartChildExecution
            => PendingInfo.info.StartedID = EmptyEventID)
    => /\ Elapsed <= StandbyClusterDelay => attempt.err = ErrTaskRetry
       /\ Elapsed > StandbyClusterDelay => attempt.err = ErrTaskDiscarded
       /\ MatchingCalls = {} /\ PublishCalls = {} /\ StoreCalls = {}

\* C15's case: a signal task one tick older than the delay, within twice the
\* delay, is discarded.
C15_Witness ==
    /\ Loaded /\ IsWorkflowExecutionRunning(mutableState)
    /\ queueTask.TaskType = TransferTaskTypeSignalExecution
    /\ PendingInfo.isPending /\ PendingInfo.info.Version = queueTask.Version
    /\ Elapsed = StandbyClusterDelay + 1 /\ Elapsed <= 2 * StandbyClusterDelay
    /\ attempt.err = ErrTaskDiscarded

\* the precondition of scenario S3: an activity task (scheduleID 7, version 5,
\* visibilityTs T0) at shard time T0 + 2*StandbyClusterDelay + 1, its activity
\* either not in the mutable state or pending there, unstarted, with the
\* task's version
PoisonActivityTask ==
    /\ Loaded /\ IsWorkflowExecutionRunning(mutableState)
    /\ queueTask.TaskType = TransferTaskTypeActivityTask
    /\ queueTask.ScheduleID = 7 /\ queueTask.Version = 5
    /\ Elapsed = 2 * StandbyClusterDelay + 1
    /\ \/ ~PendingInfo.isPending
       \/ /\ PendingInfo.info.Version = queueTask.Version
          /\ PendingInfo.info.StartedID = EmptyEventID

\* C16 as stated: the poison activity task is given up with ErrTaskDiscarded
\* and no matching call.
C16_Original ==
    PoisonActivityTask => attempt.err = ErrTaskDiscarded /\ MatchingCalls = {}

\* C16: poison activity task (S3).  The activity handler never returns
\* ErrTaskDiscarded: for the task of S3, when the activity is not pending the
\* handler returns nil with no matching call; when it is pending, unstarted,
\* with the task's version, the task is past the delay and is pushed: exactly
\* one AddActivityTask with min(scheduleToStartTimeout, MaxTaskTimeout), whose
\* result is returned.
C16_PoisonActivityTask ==
    PoisonActivityTask =>
        /\ attempt.err \notin {ErrTaskDiscarded, ErrTaskRetry}
        /\ ~PendingInfo.isPending => attempt.err = NoError /\ MatchingCalls = {}
        /\ PendingInfo.isPending =>
              /\ Cardinality(MatchingCalls) = 1
              /\ \A i \in MatchingCalls :
                    /\ attempt.log[i].call = "AddActivityTask"
                    /\ attempt.log[i].arg.ScheduleId = 7
                    /\ attempt.log[i].arg.ScheduleToStartTimeoutSeconds =
                          MinInt32(PendingInfo.info.ScheduleToStartTimeout,
                                   MaxTaskTimeout)
                    /\ attempt.err = attempt.log[i].result

\* C16's case: the task of S3 with the activity of S1 (version 5, unstarted,
\* scheduleToStartTimeout 30) pending: pushed with timeout 30, nil returned.
C16_Witness ==
    /\ PoisonActivityTask /\ PendingInfo.isPending
    /\ PendingInfo.info.ScheduleToStartTimeout = 30
    /\ \E i \in MatchingCalls :
          attempt.log[i].arg.ScheduleToStartTimeoutSeconds = 30
    /\ attempt.err = NoError

\* the version the handler of the held task compares with task.version
ComparedVersion ==
    IF queueTask.TaskType = TransferTaskTypeCloseExecution
    THEN GetLastWriteVersion(mutableState)
    ELSE PendingInfo.info.Version

\* C17: version mismatch is a silent drop.  For every task type, when the
\* version of the info the task refers to (pending in the mutable state), or
\* the last write version for a close-execution task, differs from
\* task.version, the handler returns nil, and pushes nothing to matching,
\* publishes nothing and writes nothing to the visibility store.
C17_VersionMismatchDropped ==
    /\ Loaded
    /\ queueTask.TaskType # TransferTaskTypeCloseExecution => PendingInfo.isPending
    /\ ComparedVersion # queueTask.Version
    => /\ attempt.err = NoError
       /\ MatchingCalls = {} /\ PublishCalls = {} /\ StoreCalls = {}

\* C17's case: a close-execution task of a closed workflow whose last write
\* version is not the task's: the action ran, nil, nothing recorded.
C17_Witness ==
    /\ Loaded /\ queueTask.TaskType = TransferTaskTypeCloseExecution
    /\ ~IsWorkflowExecutionRunning(mutableState)
    /\ GetLastWriteVersion(mutableState) # queueTask.Version
    /\ CallsOf(attempt.log, "action") # {}
    /\ attempt.err = NoError /\ PublishCalls = {} /\ StoreCalls = {}

\* C18: closed-workflow short-circuit.  For the handlers with
\* processIfClosed = false (every type but CloseExecution), when the loaded
\* mutable state is not running, processTransfer returns nil and runs neither
\* the action nor the post-action; a close-execution task does run its action
\* on a closed workflow.
C18_ClosedWorkflowShortCircuit ==
    Loaded /\ ~IsWorkflowExecutionRunning(mutableState) =>
        IF queueTask.TaskType = TransferTaskTypeCloseExecution
        THEN CallsOf(attempt.log, "action") # {}
        ELSE /\ attempt.err = NoError
             /\ CallsOf(attempt.log, "action") = {}
             /\ CallsOf(attempt.log, "postAction") = {}
             /\ MatchingCalls = {} /\ PublishCalls = {} /\ StoreCalls = {}

\* C18's case: a decision task that would be pushed (pending, unstarted, the
\* task's version, past the delay), its workflow closed: nil, nothing ran.
C18_Witness ==
    /\ Loaded /\ ~IsWorkflowExecutionRunning(mutableState)
    /\ queueTask.TaskType = TransferTaskTypeDecisionTask
    /\ PendingInfo.isPending /\ PendingInfo.info.Version = queueTask.Version
    /\ PendingInfo.info.StartedID = EmptyEventID
    /\ Elapsed > StandbyClusterDelay
    /\ attempt.err = NoError /\ MatchingCalls = {}

\* the release calls of the attempt, and whether the execution was acquired
ReleaseCalls == CallsOf(attempt.log, "release")

Acquired ==
    /\ Done
    /\ \E i \in CallsOf(attempt.log, "getOrCreateWorkflowExecution") :
          attempt.log[i].result = NoError

\* C19: scoped release.  On every exit path after a successful acquisition
\* the release hook is called, last of all calls; when the outcome is
\* ErrTaskRetry every release call receives nil; when the outcome is any other
\* error (ErrTaskDiscarded included) the final release receives that error.
C19_ScopedRelease ==
    Acquired =>
        /\ ReleaseCalls # {}
        /\ attempt.log[Len(attempt.log)].call = "release"
        /\ attempt.err = ErrTaskRetry =>
              \A i \in ReleaseCalls : attempt.log[i].arg = NoError
        /\ attempt.err # ErrTaskRetry =>
              attempt.log[Len(attempt.log)].arg = attempt.err

\* C19's case: a cancel task within the delay: ErrTaskRetry, one release, with nil.
C19_Witness ==
    /\ Acquired /\ attempt.err = ErrTaskRetry
    /\ queueTask.TaskType = TransferTaskTypeCancelExecution
    /\ Elapsed <= StandbyClusterDelay
    /\ Cardinality(ReleaseCalls) = 1
    /\ \A i \in ReleaseCalls : attempt.log[i].arg = NoError

\* the domain entry the attempt's lookup returned; and: the lookup found the
\* domain, the workflow is not left out by sampling, a producer is configured
\* and the publish succeeded
ClosedDomainEntry ==
    LET lookups == CallsOf(attempt.log, "GetDomainByID")
    IN  IF lookups = {} THEN [RetentionDays |-> 3]
        ELSE LET i == CHOOSE j \in lookups : TRUE
             IN  IF attempt.log[i].result.err = NoError
                 THEN attempt.log[i].result.entry
                 ELSE [RetentionDays |-> 3]

ClosedIsRecorded ==
    /\ \E i \in CallsOf(attempt.log, "GetDomainByID") :
          /\ attempt.log[i].result.err = NoError
          /\ attempt.log[i].result.entry.SampledEnabled
                => attempt.log[i].result.entry.Sampled
    /\ visibilityProducer # "nil"
    /\ \A i \in PublishCalls : attempt.log[i].result = NoError

\* C20 as stated: every close-execution task of a closed workflow with the
\* task's last write version gives one publish and one store write.
C20_Original ==
    Loaded /\ queueTask.TaskType = TransferTaskTypeCloseExecution
    => /\ attempt.err \notin {ErrTaskRetry, ErrTaskDiscarded}
       /\ IsWorkflowExecutionRunning(mutableState)
             => attempt.err = NoError /\ PublishCalls = {} /\ StoreCalls = {}
       /\ /\ ~IsWorkflowExecutionRunning(mutableState)
          /\ GetLastWriteVersion(mutableState) = queueTask.Version
          /\ TRUE
          => /\ Cardinality(PublishCalls) = 1
             /\ \A i \in PublishCalls :
                   LET msg == attempt.log[i].arg
                   IN  /\ msg.MsgType = Some("Closed")
                       /\ msg.CloseTime = Some(GetLastUpdatedTimestamp(mutableState))
                       /\ msg.CloseStatus =
                             Some(getWorkflowExecutionCloseStatus(
                                      GetExecutionInfo(mutableState).CloseStatus))
                       /\ msg.HistoryLength = Some(GetNextEventID(mutableState))
             /\ Cardinality(StoreCalls) = 1
             /\ \A i \in StoreCalls :
                   /\ attempt.log[i].call = "RecordWorkflowExecutionClosed"
                   /\ attempt.log[i].arg.RetentionSeconds
                         = ClosedDomainEntry.RetentionDays * secondsInDay
                   /\ attempt.err = attempt.log[i].result

\* C20: close execution (S4).  A close-execution task never returns
\* ErrTaskRetry or ErrTaskDiscarded; on a running workflow it returns nil and
\* records nothing; on a closed workflow with last write version =
\* task.version, when the domain is found, the workflow is not left out by
\* sampling, a visibility producer is configured and its publish succeeds:
\* exactly one publish of a Closed message with closeTime = last-updated
\* timestamp, closeStatus from the execution info and historyLength =
\* nextEventID, and exactly one RecordWorkflowExecutionClosed with
\* retentionSeconds = retentionDays * 86400, whose result is returned.
C20_CloseExecution ==
    Loaded /\ queueTask.TaskType = TransferTaskTypeCloseExecution
    => /\ attempt.err \notin {ErrTaskRetry, ErrTaskDiscarded}
       /\ IsWorkflowExecutionRunning(mutableState)
             => attempt.err = NoError /\ PublishCalls = {} /\ StoreCalls = {}
       /\ /\ ~IsWorkflowExecutionRunning(mutableState)
          /\ GetLastWriteVersion(mutableState) = queueTask.Version
          /\ ClosedIsRecorded
          => /\ Cardinality(PublishCalls) = 1
             /\ \A i \in PublishCalls :
                   LET msg == attempt.log[i].arg
                   IN  /\ msg.MsgType = Some("Closed")
                       /\ msg.CloseTime = Some(GetLastUpdatedTimestamp(mutableState))
                       /\ msg.CloseStatus =
                             Some(getWorkflowExecutionCloseStatus(
                                      GetExecutionInfo(mutableState).CloseStatus))
                       /\ msg.HistoryLength = Some(GetNextEventID(mutableState))
             /\ Cardinality(StoreCalls) = 1
             /\ \A i \in StoreCalls :
                   /\ attempt.log[i].call = "RecordWorkflowExecutionClosed"
                   /\ attempt.log[i].arg.RetentionSeconds
                         = ClosedDomainEntry.RetentionDays * secondsInDay
                   /\ attempt.err = attempt.log[i].result

\* C20's case: S4 with closeStatus Completed: published once, recorded once
\* with the retention of three days in seconds, nil returned.
C20_Witness ==
    /\ Loaded /\ queueTask.TaskType = TransferTaskTypeCloseExecution
    /\ ~IsWorkflowExecutionRunning(mutableState)
    /\ GetLastWriteVersion(mutableState) = queueTask.Version
    /\ ClosedIsRecorded
    /\ \E i \in PublishCalls : attempt.log[i].arg.CloseStatus = Some("COMPLETED")
    /\ \E i \in StoreCalls : attempt.log[i].arg.RetentionSeconds = 259200
    /\ attempt.err = NoError

\* ------------------------------------------- the visibility record of a task
\* the workflow execution the task is about
TaskExecution == [WorkflowId |-> queueTask.WorkflowID, RunId |-> queueTask.RunID]

\* what recordWorkflowStarted can do when called for the task as
\* processDecisionTask calls it, and recordWorkflowClosed as
\* processCloseExecution calls it
StartedOutcomes ==
    recordWorkflowStarted(queueTask.DomainID, TaskExecution,
        GetExecutionInfo(mutableState).WorkflowTypeName,
        GetExecutionInfo(mutableState).StartTimestamp,
        GetExecutionInfo(mutableState).WorkflowTimeout)

ClosedOutcomes ==
    recordWorkflowClosed(queueTask.DomainID, TaskExecution,
        GetExecutionInfo(mutableState).WorkflowTypeName,
        GetExecutionInfo(mutableState).StartTimestamp,
        GetLastUpdatedTimestamp(mutableState),
        getWorkflowExecutionCloseStatus(GetExecutionInfo(mutableState).CloseStatus),
        GetNextEventID(mutableState))

\* the calls of o are those the attempt made from its domain lookup on, and
\* the attempt made no further call on the bus or the visibility store
RanAs(o) ==
    \E i \in CallsOf(attempt.log, "GetDomainByID") :
        LET last == i + Len(o.log) - 1
        IN  /\ last <= Len(attempt.log)
            /\ SubSeq(attempt.log, i, last) = o.log
            /\ \A j \in PublishCalls \cup StoreCalls : j <= last

\* the calls of recordWorkflowStarted / recordWorkflowClosed in the attempt,
\* with the error the operation returned
StartedRuns ==
    IF Loaded /\ queueTask.TaskType = TransferTaskTypeDecisionTask
    THEN {o \in StartedOutcomes : RanAs(o)} ELSE {}

ClosedRuns ==
    IF Loaded /\ queueTask.TaskType = TransferTaskTypeCloseExecution
    THEN {o \in ClosedOutcomes : RanAs(o)} ELSE {}

RecordRuns == StartedRuns \cup ClosedRuns

\* the answer of the domain cache, the publish calls and the store calls of o
DomainLookup(o) == o.log[1].result

Published(o) == {o.log[i] : i \in CallsOf(o.log, "Publish")}

Stored(o) ==
    {o.log[i] : i \in CallsOf(o.log, "RecordWorkflowExecutionStarted")
                        \cup CallsOf(o.log, "RecordWorkflowExecutionClosed")}

\* C21 as stated: on a domain that is not found the record is published and
\* written, whatever the producer.
C21_Original ==
    \A o \in RecordRuns :
        /\ DomainLookup(o).err = "EntityNotExistsError"
              => /\ Published(o) # {} /\ Stored(o) # {}
                 /\ \A s \in Stored(o) : s.arg.Domain = defaultDomainName
                 /\ \A s \in Stored(o) : o \in ClosedRuns => s.arg.RetentionSeconds = 0
        /\ DomainLookup(o).err \notin {NoError, "EntityNotExistsError"}
              => /\ o.err = DomainLookup(o).err
                 /\ Published(o) = {} /\ Stored(o) = {}

\* C21: domain resolution.  In recordWorkflowStarted and recordWorkflowClosed,
\* when the domain cache answers not-found the operation goes on with the
\* default domain name, sampling disabled and (for closed) retentionSeconds =
\* 0: it publishes exactly when a producer is configured and writes to the
\* store unless that publish failed; on any other error of the domain cache
\* it returns that error and neither publishes nor writes.
C21_DomainResolution ==
    \A o \in RecordRuns :
        /\ DomainLookup(o).err = "EntityNotExistsError"
              => /\ Published(o) # {} <=> visibilityProducer # "nil"
                 /\ Stored(o) # {} <=> \A p \in Published(o) : p.result = NoError
                 /\ \A p \in Published(o) : p.result # NoError => o.err = p.result
                 /\ \A s \in Stored(o) : s.arg.Domain = defaultDomainName
                 /\ \A s \in Stored(o) : o \in ClosedRuns => s.arg.RetentionSeconds = 0
        /\ DomainLookup(o).err \notin {NoError, "EntityNotExistsError"}
              => /\ o.err = DomainLookup(o).err
                 /\ Published(o) = {} /\ Stored(o) = {}

\* C21's case: the domain of a closed workflow is not in the cache; the close
\* is published and written under the default domain name with retention 0.
C21_Witness ==
    \E o \in ClosedRuns :
        /\ DomainLookup(o).err = "EntityNotExistsError"
        /\ Published(o) # {}
        /\ \E s \in Stored(o) :
              s.arg.Domain = defaultDomainName /\ s.arg.RetentionSeconds = 0
        /\ o.err = NoError /\ attempt.err = NoError

\* the domain was resolved (found, or not found and defaulted) and the
\* workflow is left out by sampled-for-longer-retention
SampledOut(o) ==
    /\ DomainLookup(o).err = NoError
    /\ DomainLookup(o).entry.SampledEnabled
    /\ ~DomainLookup(o).entry.Sampled

Resolved(o) == DomainLookup(o).err \in {NoError, "EntityNotExistsError"}

\* C22 as stated: every resolved record that is not left out by sampling
\* reaches the store.
C22_Original ==
    \A o \in RecordRuns :
        /\ SampledOut(o)
              => o.err = NoError /\ Published(o) = {} /\ Stored(o) = {}
        /\ Resolved(o) /\ ~SampledOut(o) => Stored(o) # {}

\* C22: sampling skip.  When sampled-for-longer-retention is enabled for the
\* workflow and the workflow is not in the sample, recordWorkflowStarted /
\* recordWorkflowClosed returns nil with no publish and no store write; in
\* every other resolved case the store write is attempted once, unless the
\* publish of a configured producer failed.
C22_SamplingSkip ==
    \A o \in RecordRuns :
        /\ SampledOut(o)
              => o.err = NoError /\ Published(o) = {} /\ Stored(o) = {}
        /\ Resolved(o) /\ ~SampledOut(o)
              => IF \E p \in Published(o) : p.result # NoError
                 THEN Stored(o) = {}
                 ELSE Cardinality(Stored(o)) = 1

\* C22's case: the domain has sampling enabled and the started workflow is
\* not in the sample: nil, nothing published, nothing written.
C22_Witness ==
    \E o \in StartedRuns :
        /\ SampledOut(o)
        /\ o.err = NoError /\ Len(o.log) = 1 /\ attempt.err = NoError
        /\ PublishCalls = {} /\ StoreCalls = {}
        /\ visibilityProducer # "nil"

\* the positions in o's calls of the publish and of the store write
PublishAt(o) == CallsOf(o.log, "Publish")

StoreAt(o) ==
    CallsOf(o.log, "RecordWorkflowExecutionStarted")
        \cup CallsOf(o.log, "RecordWorkflowExecutionClosed")

\* C23: publish before store.  In recordWorkflowStarted / recordWorkflowClosed
\* with a visibility producer configured, a store write comes only after a
\* publish to the bus, and when the publish fails its error is returned and
\* the store is not written; with no producer configured there is no publish
\* and a record that is resolved and not left out by sampling is still
\* written to the store.
C23_PublishBeforeStore ==
    \A o \in RecordRuns :
        /\ visibilityProducer # "nil"
              => /\ \A s \in StoreAt(o) :
                        \E p \in PublishAt(o) : p < s /\ o.log[p].result = NoError
                 /\ Resolved(o) /\ ~SampledOut(o) => Cardinality(PublishAt(o)) = 1
                 /\ \A p \in PublishAt(o) : o.log[p].result # NoError
                        => o.err = o.log[p].result /\ StoreAt(o) = {}
        /\ visibilityProducer = "nil"
              => /\ PublishAt(o) = {}
                 /\ Resolved(o) /\ ~SampledOut(o) => Cardinality(StoreAt(o)) = 1

\* C23's case: the producer is configured and the publish of the Open message
\* fails: the publish error comes back from the decision handler's
\* recordWorkflowStarted and the visibility store is not written.
C23_Witness ==
    \E o \in StartedRuns :
        /\ visibilityProducer # "nil"
        /\ \E p \in PublishAt(o) : o.log[p].result = "errPublish"
        /\ o.err = "errPublish"
        /\ StoreCalls = {}

\* C24: message shape.  Every message recordWorkflowStarted publishes has
\* msgType Open with closeTime, closeStatus and historyLength absent; every
\* message recordWorkflowClosed publishes has msgType Closed with the three
\* present; both carry domainID, workflowID, runID, workflowType and
\* startTime.
C24_MessageShape ==
    /\ \A o \in StartedRuns : \A p \in Published(o) :
          /\ p.arg.MsgType = Some("Open")
          /\ p.arg.CloseTime = Null /\ p.arg.CloseStatus = Null
          /\ p.arg.HistoryLength = Null
    /\ \A o \in ClosedRuns : \A p \in Published(o) :
          /\ p.arg.MsgType = Some("Closed")
          /\ p.arg.CloseTime # Null /\ p.arg.CloseStatus # Null
          /\ p.arg.HistoryLength # Null
    /\ \A o \in RecordRuns : \A p \in Published(o) :
          /\ p.arg.DomainID = Some(queueTask.DomainID)
          /\ p.arg.WorkflowID = Some(queueTask.WorkflowID)
          /\ p.arg.RunID = Some(queueTask.RunID)
          /\ p.arg.WorkflowType = Some(GetExecutionInfo(mutableState).WorkflowTypeName)
          /\ p.arg.StartTime = Some(GetExecutionInfo(mutableState).StartTimestamp)

\* C24's case: a decision task with schedule id <= FirstEventID + 2 published
\* the Open message of its workflow, with no close fields.
C24_Witness ==
    \E o \in StartedRuns : \E p \in Published(o) :
        /\ p.arg.MsgType = Some("Open") /\ p.arg.CloseTime = Null
        /\ p.arg.RunID = Some(queueTask.RunID)
        /\ p.result = NoError
        /\ queueTask.ScheduleID <= FirstEventID + 2

\* C29: the decision handler surfaces the record error.  When
\* processDecisionTask calls recordWorkflowStarted (scheduleID <=
\* FirstEventID + 2) and it returns an error, the handler returns that error
\* and does not push the decision to matching, whether the decision is not
\* pending or pending with the task's version.
C29_DecisionSurfacesRecordError ==
    \A o \in StartedRuns :
        o.err # NoError
        => /\ attempt.err = o.err
           /\ CallsOf(attempt.log, "AddDecisionTask") = {}

\* the outcomes that complete a task
TerminalOutcomes == {NoError, ErrTaskDiscarded}

\* the six task types the standby processor has a handler for
HandledTaskTypes ==
    {TransferTaskTypeActivityTask, TransferTaskTypeDecisionTask,
     TransferTaskTypeCloseExecution, TransferTaskTypeCancelExecution,
     TransferTaskTypeSignalExecution, TransferTaskTypeStartChildExecution}

\* C30: no task retries for ever.  With the shard's time advancing, the
\* task's visibility timestamp and the mutable state fixed and collaborators
\* that do not fail, for every handled task type the repeated invocation of
\* the handler eventually returns nil or ErrTaskDiscarded, and once an
\* invocation has returned one of the two every later one does.
C30_NoTaskRetriesForever ==
    /\ (taskPhase = "ready" /\ queueTask.TaskType \in HandledTaskTypes)
          ~> (attempt.err \in TerminalOutcomes)
    /\ [][taskPhase = "ready" /\ queueTask.TaskType \in HandledTaskTypes
          /\ attempt.err \in TerminalOutcomes
          => attempt'.err \in TerminalOutcomes]_vars

\* C30's case: a cancel task whose workflow is still running was answered
\* ErrTaskRetry until the shard's time passed the standby delay, and
\* ErrTaskDiscarded by the invocation after that.
C30_Witness ==
    /\ taskPhase = "ready"
    /\ queueTask.TaskType = TransferTaskTypeCancelExecution
    /\ attempt.err = ErrTaskDiscarded
    /\ Elapsed > StandbyClusterDelay
    /\ Len(attempt.log) >= 3

\* C28: bulk header round trip for index requests.  For every index request
\* that waits in the bulk processor, its source has two lines and
\* getESRequest of that source is an index request with the same _index,
\* _type, _id, version and version_type and the same document, hence with the
\* same in-flight key and the same source again.
C28_IndexHeaderRoundTrip ==
    \A r \in Pending : r.op = esRequestTypeIndex =>
        LET input == Source(r)
            rebuilt == getESRequest(input)
        IN  /\ Len(input) = 2
            /\ rebuilt # NilRequest
            /\ rebuilt.op = esRequestTypeIndex
            /\ rebuilt.index = r.index /\ rebuilt.typ = r.typ /\ rebuilt.id = r.id
            /\ rebuilt.version = r.version /\ rebuilt.versionType = r.versionType
            /\ rebuilt.doc = r.doc
            /\ RequestKey(rebuilt) = RequestKey(r)
            /\ Source(rebuilt) = input

\* C28's case: the index request of an earlier handle was answered with a
\* failure, rebuilt from its source and staged again behind the request of a
\* later handle, under the key its handle is in flight with.
C28_Witness ==
    \E h1, h2 \in Handles :
        /\ h1 < h2 /\ added[h1] # NoKey /\ added[h2] # NoKey /\ added[h1] # added[h2]
        /\ Len(staged) = 2
        /\ RequestKey(staged[1]) = added[h2] /\ RequestKey(staged[2]) = added[h1]
        /\ staged[2].op = esRequestTypeIndex
        /\ staged[2].doc = ClosedDoc(staged[2].id)
        /\ Contains(mapToKafkaMsg, added[h1]) /\ mapToKafkaMsg[added[h1]] = h1

\* C26: per-workflow shard routing.  The hash of the in-flight table depends
\* only on the workflow of a key: whatever the fingerprint function, two keys
\* handed to Add for the same run (its Open and its Closed key) get the same
\* hash, below IndexerConcurrency.
C26_PerWorkflowShardRouting ==
    \A h1, h2 \in Handles :
        added[h1] # NoKey /\ added[h2] # NoKey /\ added[h1][1] = added[h2][1]
        => \A fingerprint \in Fingerprints({added[h1], added[h2]}) :
              /\ hashFn(fingerprint, added[h1]) = hashFn(fingerprint, added[h2])
              /\ hashFn(fingerprint, added[h1]) \in 0..(IndexerConcurrency - 1)

\* the source of the request cannot be obtained, or its header is not JSON,
\* or one of the five header values is missing or ill-typed
Malformed(request) ==
    \/ SourceErr(request)
    \/ LET unmarshalled == UnmarshalHeader(Source(request)[1])
           m == unmarshalled.reqHead[getReqType(unmarshalled.reqHead)]
       IN  \/ unmarshalled.err
           \/ \E f \in HeaderFields \ {"version"} : ~IsString(m, f)
           \/ ~IsFloat64(m, "version")

\* the batch without its malformed requests and their response items
WellFormedPart(batch) ==
    LET good == {i \in 1..Len(batch.requests) : ~Malformed(batch.requests[i])}
        nth(j) == CHOOSE i \in good : Cardinality({k \in good : k < i}) = j - 1
    IN  [requests |-> [j \in 1..Cardinality(good) |-> batch.requests[nth(j)]],
         items |-> IF batch.err THEN <<>>
                   ELSE [j \in 1..Cardinality(good) |-> batch.items[nth(j)]],
         err |-> batch.err]

\* C27: corrupted bulk data does not halt the processor.  When the After
\* callback runs on a batch, it does not panic; every request whose source
\* cannot be obtained or whose header is malformed is counted as corrupted
\* data and skipped; and the other requests are reconciled as they are
\* without the malformed ones.
C27_CorruptedDataSkipped ==
    [][\A w \in Workers : batches[w] # NoBatch /\ batches'[w] # batches[w] =>
          LET batch == batches[w]
              out == bulkAfterAction(ProcState, batch)
              rest == bulkAfterAction(ProcState, WellFormedPart(batch))
          IN  /\ ~out.panicked /\ batches'[w] = NoBatch
              /\ out.corruptedData =
                    Cardinality({i \in 1..Len(batch.requests) :
                                    Malformed(batch.requests[i])})
              /\ mapToKafkaMsg' = rest.table
              /\ acked' = rest.acked
              /\ staged' = staged \o rest.submitted
      ]_vars

C31_ConcurrentAddsLoseNoHandle ==
    /\ [](\A h \in Handles : acked[h] <= 1)
    /\ [][\A key \in DOMAIN mapToKafkaMsg :
            \/ ~Contains(mapToKafkaMsg', key)
            \/ Get(mapToKafkaMsg', key) # Get(mapToKafkaMsg, key)
            => acked[Get(mapToKafkaMsg, key)] >= 1]_vars
    /\ \A h \in Handles : (added[h] # NoKey) ~> (acked[h] = 1)

\* the attempt called getOrCreateWorkflowExecution and the call failed
AcquireFailed ==
    /\ Done
    /\ \E i \in CallsOf(attempt.log, "getOrCreateWorkflowExecution") :
          attempt.log[i].result # NoError

\* C32: release exactly once.  For every invocation of processTransfer in
\* which the acquisition of the execution succeeds, the release hook is
\* called exactly once whatever the path (mutable state missing, workflow
\* closed, action error, action success with the post-action succeeding or
\* failing); when the acquisition fails the hook is not called.
C32_ReleaseExactlyOnce ==
    /\ Acquired => Cardinality(ReleaseCalls) = 1
    /\ AcquireFailed => ReleaseCalls = {}

\* C33: a retried attempt has no external side effect.  Whatever the task
\* type, an invocation of the handler that returns ErrTaskRetry has pushed
\* nothing to matching, published nothing on the bus and written nothing to
\* the visibility store.
C33_RetryHasNoSideEffect ==
    Done /\ attempt.err = ErrTaskRetry =>
        /\ MatchingCalls = {}
        /\ PublishCalls = {}
        /\ StoreCalls = {}

====
